---- MODULE Spec2Model ----
(***************************************************************************)
(* PersonaInsight: the tweet harvesting loop of Core/TweetScraper.py       *)
(* (TwitterScraper.scrape_tweets, get_tweet_id, scrape_profile_info).      *)
(*                                                                         *)
(* Strings are sequences of character codes (naturals); the codes 0..9 are *)
(* the decimal digits.  A session is one call on one TwitterScraper        *)
(* instance; `sess' maps each session to the values of its locals and of   *)
(* self.seen_tweets, `feed' is the page the sessions are pointed at, `app' *)
(* what the application keeps between requests.                           *)
(***************************************************************************)
EXTENDS Integers, Sequences, FiniteSets, TLC

VARIABLES sess, feed, app

vars == <<sess, feed, app>>

(* ------------------------------------------------------------------ *)
(* Program constants                                                  *)
(* ------------------------------------------------------------------ *)
max_no_new_tweets == 5
max_consecutive_failures == 8
max_scroll_attempts == 50
IdPrefixLen == 50
RandLo == 1000
RandHi == 9999

(* ------------------------------------------------------------------ *)
(* Bounds of the explored inputs                                      *)
(* ------------------------------------------------------------------ *)
MaxTarget == 10
MaxFirst == 3
MaxWidth == 2
MaxGap == 9
MaxStaleFrom == 2
MaxSnap == 2
MaxAdvScans == 2

Sessions == {1, 2}

(* the analyses table of the application's database, empty *)
NoApp == [analyses |-> {}]

Min(a, b) == IF a < b THEN a ELSE b

(* ------------------------------------------------------------------ *)
(* Strings                                                            *)
(* ------------------------------------------------------------------ *)
Letter(i) == 9 + i
LetterA == Letter(1)
LetterB == Letter(2)
TweetUnderscore == 20
Underscore == 21
ClockTick == 30

IsDigit(c) == c \in 0..9

RECURSIVE Digits(_)
Digits(n) == IF n < 10 THEN <<n>> ELSE Digits(n \div 10) \o <<n % 10>>

(* text[:k] *)
Prefix(text, k) == SubSeq(text, 1, Min(k, Len(text)))

(* the group (\d+) of re.search(r'/status/(\d+)', href), for an href given *)
(* by what follows its "/status/"; <<>> when there is no match             *)
RECURSIVE DigitRun(_)
DigitRun(tail) ==
  IF tail = <<>> \/ ~IsDigit(Head(tail)) THEN <<>>
  ELSE <<Head(tail)>> \o DigitRun(Tail(tail))

(* f"tweet_{time.time()}_{random.randint(1000, 9999)}" *)
RandomKey(t, r) == <<TweetUnderscore, t, Underscore, r>>

(* the keys the last resort of get_tweet_id may produce in one session:   *)
(* two clock readings, the two ends of the randint range                  *)
RandomKeys == {RandomKey(ClockTick, RandLo), RandomKey(ClockTick + 1, RandHi)}

(* ------------------------------------------------------------------ *)
(* Rendered elements                                                  *)
(* href: NoHref when the article has no a[href*="/status/"], else what *)
(*       follows "/status/" (<<>>: get_attribute gave nothing);        *)
(* text: the joined text of the div[data-testid="tweetText"] parts;    *)
(* staleAt: the first read of the handle that raises                   *)
(*       StaleElementReferenceException: 1 the link lookup, 2 the text *)
(*       lookup of get_tweet_id, 3 the text lookup of the scan loop,   *)
(*       4 none.  A stale handle stays stale.                          *)
(* ------------------------------------------------------------------ *)
NoHref == <<-1>>

LongA == [i \in 1..IdPrefixLen |-> LetterA] \o <<LetterA>>
LongB == [i \in 1..IdPrefixLen |-> LetterA] \o <<LetterB>>

AdvHrefs == {NoHref, <<1>>, <<2, LetterA>>, <<LetterA>>}
AdvTexts == {<<>>, LongA, LongB, <<1>>, RandomKey(ClockTick, RandLo)}

(* a read that raises shows nothing: one element stands for all the   *)
(* elements that differ only in what a stale read would have returned *)
ElemKinds ==
  {e \in [href : AdvHrefs, text : AdvTexts, staleAt : 1..4] :
     /\ e.staleAt = 1 => e.href = NoHref
     /\ e.staleAt <= 2 => e.text = <<>>}

(* post p of a well-formed feed: status link p, text "a<p>", never stale *)
PostText(p) == <<LetterA>> \o Digits(p)
PostElem(p) == [href |-> Digits(p), text |-> PostText(p), staleAt |-> 4]

(* ------------------------------------------------------------------ *)
(* Feeds                                                              *)
(* kind "drip": `first' posts are rendered at the first scan, `width'  *)
(*   more posts are loaded every `gap' scans until the profile's        *)
(*   `total' posts are loaded, every scan renders all the posts loaded  *)
(*   so far; from scan `stale_from' on (0: never) the snapshot read     *)
(*   raises StaleElementReferenceException.                             *)
(* kind "flaky": `first' posts and nothing more to load, every scan     *)
(*   renders them all, but during the first MaxAdvScans scans the       *)
(*   lookup of a post's status link may find nothing or raise.          *)
(* kind "adversarial": during the first MaxAdvScans scans every read    *)
(*   may return anything in ElemKinds, afterwards nothing is rendered.  *)
(* ------------------------------------------------------------------ *)
(* more posts than any session can load *)
Endless == MaxFirst + max_scroll_attempts * MaxWidth

DripFeeds ==
  {f \in [kind : {"drip"}, first : 0..MaxFirst, width : 1..MaxWidth,
           gap : 1..MaxGap, total : 0..(MaxFirst + 1) \cup {Endless},
           stale_from : 0..MaxStaleFrom] :
     /\ f.first <= f.total
     /\ f.total < Endless => (f.width = 1 /\ f.gap \in {1, 5})
     /\ f.stale_from > 0 => (f.first = f.total /\ f.first <= 1 /\ f.gap = 1)}

AdvFeed == [kind |-> "adversarial", first |-> 0, width |-> 0, gap |-> 0,
            total |-> 0, stale_from |-> 0]

FlakyFeeds ==
  {f \in [kind : {"flaky"}, first : 1..MaxSnap, width : {1}, gap : {1},
           total : 1..MaxSnap, stale_from : {0}] : f.first = f.total}

Feeds == DripFeeds \cup FlakyFeeds \cup {AdvFeed}

(* posts loaded when scan k (k >= 1) runs *)
Loaded(f, k) == Min(f.total, f.first + ((k - 1) \div f.gap) * f.width)

Targets(f) ==
  IF f.kind # "drip" THEN 1..2
  ELSE {t \in 1..MaxTarget : t <= 2 \/ t >= 10}

(* ------------------------------------------------------------------ *)
(* Session state                                                      *)
(* ------------------------------------------------------------------ *)
Pending == [kind |-> "pending", val |-> <<>>]
ReturnNone == [kind |-> "none", val |-> <<>>]
ReturnList(l) == [kind |-> "list", val |-> l]
ReturnDict == [kind |-> "dict", val |-> <<>>]
Raised == [kind |-> "raised", val |-> <<>>]

(* TwitterScraper.__init__ followed by the entry of the called method; the *)
(* locals of scrape_tweets hold placeholders until they are assigned.      *)
(* exit, advance, supplemental, scanned and scrolled record what the       *)
(* session did: why the loop ended, the advance action of the current      *)
(* iteration, and whether find_elements / a scroll script was ever issued; *)
(* private_element: whether the wait for the privacy marker found it.      *)
NewSession(start_pc, n) ==
  [pc |-> start_pc,
   num_tweets |-> n,
   private_element |-> FALSE,
   seen_tweets |-> {},
   tweets |-> <<>>,
   last_height |-> 0,
   no_new_tweets_count |-> 0,
   consecutive_failed_scrolls |-> 0,
   scroll_count |-> 0,
   tweet_elements |-> 0,
   elem |-> 0,
   tweets_before |-> 0,
   new_tweets_count |-> 0,
   ret |-> Pending,
   exit |-> "none",
   advance |-> "none",
   supplemental |-> FALSE,
   scanned |-> FALSE,
   scrolled |-> FALSE]

(* ------------------------------------------------------------------ *)
(* get_tweet_id                                                       *)
(* ------------------------------------------------------------------ *)
(* get_tweet_id that tries the text before the status link *)
get_tweet_id_TextFirst(e, rk) ==
  IF e.staleAt > 2 /\ e.text # <<>>
  THEN Prefix(e.text, IdPrefixLen)
  ELSE IF e.staleAt > 1 /\ e.href # NoHref /\ e.href # <<>>
          /\ DigitRun(e.href) # <<>>
  THEN DigitRun(e.href)
  ELSE rk

get_tweet_id(e, rk) ==
  IF e.staleAt > 1 /\ e.href # NoHref /\ e.href # <<>> /\ DigitRun(e.href) # <<>>
  THEN DigitRun(e.href)
  ELSE IF e.staleAt > 2 /\ e.text # <<>>
  THEN Prefix(e.text, IdPrefixLen)
  ELSE rk

(* ------------------------------------------------------------------ *)
(* scrape_tweets, one operator per step                               *)
(* ------------------------------------------------------------------ *)

(* self.driver.get(url): not inside any try *)
Navigate(st, ok) ==
  IF ok THEN [st EXCEPT !.pc = "check_private"]
  ELSE [st EXCEPT !.pc = "done", !.ret = Raised]

(* CheckPrivate without `self.seen_tweets = set()' *)
CheckPrivateKeepsSeen(st, marker) ==
  IF marker
  THEN [st EXCEPT !.pc = "done", !.private_element = TRUE, !.ret = ReturnNone]
  ELSE [st EXCEPT !.pc = "wait_tweets", !.tweets = <<>>]

(* CheckPrivate without the `return None' under `if private_element' *)
CheckPrivateNoReturn(st, marker) ==
  [st EXCEPT !.pc = "wait_tweets", !.private_element = marker,
             !.tweets = <<>>, !.seen_tweets = {}]

(* wait.until(private marker), then tweets = [], seen_tweets = set() *)
CheckPrivate(st, marker) ==
  IF marker
  THEN [st EXCEPT !.pc = "done", !.private_element = TRUE, !.ret = ReturnNone]
  ELSE [st EXCEPT !.pc = "wait_tweets", !.tweets = <<>>, !.seen_tweets = {}]

(* WaitTweets whose TimeoutException handler returns None *)
WaitTweetsReturnsNone(st, marker, height) ==
  IF ~marker THEN [st EXCEPT !.pc = "done", !.ret = ReturnNone]
  ELSE [st EXCEPT !.pc = "loop_head",
                  !.last_height = height,
                  !.no_new_tweets_count = 0,
                  !.consecutive_failed_scrolls = 0,
                  !.scroll_count = 0]

(* wait.until(article marker), then the scroll variables *)
WaitTweets(st, marker, height) ==
  IF ~marker THEN [st EXCEPT !.pc = "done", !.ret = ReturnList(<<>>)]
  ELSE [st EXCEPT !.pc = "loop_head",
                  !.last_height = height,
                  !.no_new_tweets_count = 0,
                  !.consecutive_failed_scrolls = 0,
                  !.scroll_count = 0]

(* while len(tweets) < num_tweets and scroll_count < max_scroll_attempts *)
LoopHead(st) ==
  IF Len(st.tweets) < st.num_tweets /\ st.scroll_count < max_scroll_attempts
  THEN [st EXCEPT !.pc = "scan",
                  !.scroll_count = st.scroll_count + 1,
                  !.advance = "none",
                  !.supplemental = FALSE]
  ELSE [st EXCEPT !.pc = "return",
                  !.exit = IF Len(st.tweets) < st.num_tweets THEN "budget"
                           ELSE "target"]

(* FindElements whose stale handler gives the scroll attempt back *)
FindElementsStaleRefunds(st, stale, n) ==
  IF stale THEN [st EXCEPT !.pc = "loop_head", !.scanned = TRUE,
                           !.scroll_count = st.scroll_count - 1]
  ELSE [st EXCEPT !.pc = IF n = 0 THEN "update" ELSE "process",
                  !.scanned = TRUE,
                  !.tweet_elements = n,
                  !.tweets_before = Len(st.tweets),
                  !.elem = 1]

(* tweet_elements = find_elements(...); n handles, or the stale handler *)
FindElements(st, stale, n) ==
  IF stale THEN [st EXCEPT !.pc = "loop_head", !.scanned = TRUE]
  ELSE [st EXCEPT !.pc = IF n = 0 THEN "update" ELSE "process",
                  !.scanned = TRUE,
                  !.tweet_elements = n,
                  !.tweets_before = Len(st.tweets),
                  !.elem = 1]

(* the end of one pass of `for tweet in tweet_elements' *)
NextElem(st) ==
  IF st.elem < st.tweet_elements THEN [st EXCEPT !.elem = st.elem + 1]
  ELSE [st EXCEPT !.pc = "update", !.tweet_elements = 0, !.elem = 0]

(* ProcessTweet without the break at len(tweets) >= num_tweets *)
ProcessTweetNoBreak(st, e, rk) ==
  LET tweet_id == get_tweet_id(e, rk) IN
  IF tweet_id \in st.seen_tweets THEN NextElem(st)
  ELSE
    LET marked == [st EXCEPT !.seen_tweets = st.seen_tweets \cup {tweet_id}] IN
    IF e.staleAt <= 3 THEN NextElem(marked)
    ELSE IF e.text = <<>> THEN NextElem(marked)
    ELSE NextElem([marked EXCEPT !.tweets = Append(st.tweets, e.text)])

(* ProcessTweet without the `if tweet_id in self.seen_tweets: continue' *)
ProcessTweetNoDedup(st, e, rk) ==
  LET tweet_id == get_tweet_id(e, rk)
      marked == [st EXCEPT !.seen_tweets = st.seen_tweets \cup {tweet_id}] IN
  IF e.staleAt <= 3 THEN NextElem(marked)
  ELSE IF e.text = <<>> THEN NextElem(marked)
  ELSE
    LET added == [marked EXCEPT !.tweets = Append(st.tweets, e.text)] IN
    IF Len(added.tweets) >= st.num_tweets
    THEN [added EXCEPT !.pc = "update", !.tweet_elements = 0, !.elem = 0]
    ELSE NextElem(added)

(* ProcessTweet without the except clause of the for loop: a stale text *)
(* lookup ends the call with the exception                             *)
ProcessTweetStaleRaises(st, e, rk) ==
  LET tweet_id == get_tweet_id(e, rk) IN
  IF tweet_id \in st.seen_tweets THEN NextElem(st)
  ELSE
    LET marked == [st EXCEPT !.seen_tweets = st.seen_tweets \cup {tweet_id}] IN
    IF e.staleAt <= 3 THEN [marked EXCEPT !.pc = "done", !.ret = Raised]
    ELSE IF e.text = <<>> THEN NextElem(marked)
    ELSE
      LET added == [marked EXCEPT !.tweets = Append(st.tweets, e.text)] IN
      IF Len(added.tweets) >= st.num_tweets
      THEN [added EXCEPT !.pc = "update", !.tweet_elements = 0, !.elem = 0]
      ELSE NextElem(added)

(* ProcessTweet that adds the identity to seen_tweets when it appends *)
ProcessTweetMarksOnAppend(st, e, rk) ==
  LET tweet_id == get_tweet_id(e, rk) IN
  IF tweet_id \in st.seen_tweets THEN NextElem(st)
  ELSE IF e.staleAt <= 3 THEN NextElem(st)
  ELSE IF e.text = <<>> THEN NextElem(st)
  ELSE
    LET added == [st EXCEPT !.tweets = Append(st.tweets, e.text),
                            !.seen_tweets = st.seen_tweets \cup {tweet_id}] IN
    IF Len(added.tweets) >= st.num_tweets
    THEN [added EXCEPT !.pc = "update", !.tweet_elements = 0, !.elem = 0]
    ELSE NextElem(added)

(* ProcessTweet without the `if full_text' test before the append *)
ProcessTweetAppendsEmpty(st, e, rk) ==
  LET tweet_id == get_tweet_id(e, rk) IN
  IF tweet_id \in st.seen_tweets THEN NextElem(st)
  ELSE
    LET marked == [st EXCEPT !.seen_tweets = st.seen_tweets \cup {tweet_id}] IN
    IF e.staleAt <= 3 THEN NextElem(marked)
    ELSE
      LET added == [marked EXCEPT !.tweets = Append(st.tweets, e.text)] IN
      IF Len(added.tweets) >= st.num_tweets
      THEN [added EXCEPT !.pc = "update", !.tweet_elements = 0, !.elem = 0]
      ELSE NextElem(added)

(* the body of the for loop for the element read as e *)
ProcessTweet(st, e, rk) ==
  LET tweet_id == get_tweet_id(e, rk) IN
  IF tweet_id \in st.seen_tweets THEN NextElem(st)
  ELSE
    LET marked == [st EXCEPT !.seen_tweets = st.seen_tweets \cup {tweet_id}] IN
    IF e.staleAt <= 3 THEN NextElem(marked)
    ELSE IF e.text = <<>> THEN NextElem(marked)
    ELSE
      LET added == [marked EXCEPT !.tweets = Append(st.tweets, e.text)] IN
      IF Len(added.tweets) >= st.num_tweets
      THEN [added EXCEPT !.pc = "update", !.tweet_elements = 0, !.elem = 0]
      ELSE NextElem(added)

(* CountNewTweets whose else branch resets no_new_tweets_count only *)
CountNewTweetsKeepsFailures(st) ==
  LET new_count == Len(st.tweets) - st.tweets_before IN
  IF new_count = 0
  THEN [st EXCEPT !.pc = "decide",
                  !.new_tweets_count = new_count,
                  !.no_new_tweets_count = st.no_new_tweets_count + 1,
                  !.consecutive_failed_scrolls = st.consecutive_failed_scrolls + 1]
  ELSE [st EXCEPT !.pc = "decide",
                  !.new_tweets_count = new_count,
                  !.no_new_tweets_count = 0]

(* new_tweets_count and the two stall counters *)
CountNewTweets(st) ==
  LET new_count == Len(st.tweets) - st.tweets_before IN
  IF new_count = 0
  THEN [st EXCEPT !.pc = "decide",
                  !.new_tweets_count = new_count,
                  !.no_new_tweets_count = st.no_new_tweets_count + 1,
                  !.consecutive_failed_scrolls = st.consecutive_failed_scrolls + 1]
  ELSE [st EXCEPT !.pc = "decide",
                  !.new_tweets_count = new_count,
                  !.no_new_tweets_count = 0,
                  !.consecutive_failed_scrolls = 0]

(* CheckStop that also ends the loop when the scroll budget is spent *)
CheckStopAtBudget(st) ==
  IF Len(st.tweets) >= st.num_tweets
  THEN [st EXCEPT !.pc = "return", !.exit = "target"]
  ELSE IF st.consecutive_failed_scrolls >= max_consecutive_failures
  THEN [st EXCEPT !.pc = "return", !.exit = "stall"]
  ELSE IF st.scroll_count >= max_scroll_attempts
  THEN [st EXCEPT !.pc = "return", !.exit = "budget"]
  ELSE [st EXCEPT !.pc = "advance"]

(* CheckStop without the break at len(tweets) >= num_tweets *)
CheckStopNoTarget(st) ==
  IF st.consecutive_failed_scrolls >= max_consecutive_failures
  THEN [st EXCEPT !.pc = "return", !.exit = "stall"]
  ELSE [st EXCEPT !.pc = "advance"]

(* CheckStop with > for >= in the stall test *)
CheckStopOffByOne(st) ==
  IF Len(st.tweets) >= st.num_tweets
  THEN [st EXCEPT !.pc = "return", !.exit = "target"]
  ELSE IF st.consecutive_failed_scrolls > max_consecutive_failures
  THEN [st EXCEPT !.pc = "return", !.exit = "stall"]
  ELSE [st EXCEPT !.pc = "advance"]

(* the two breaks after the counter update *)
CheckStop(st) ==
  IF Len(st.tweets) >= st.num_tweets
  THEN [st EXCEPT !.pc = "return", !.exit = "target"]
  ELSE IF st.consecutive_failed_scrolls >= max_consecutive_failures
  THEN [st EXCEPT !.pc = "return", !.exit = "stall"]
  ELSE [st EXCEPT !.pc = "advance"]

(* Scroll whose alternative strategy resets both stall counters *)
ScrollResetsBoth(st, clicked) ==
  IF st.no_new_tweets_count >= max_no_new_tweets
  THEN [st EXCEPT !.pc = "height", !.advance = "recovery", !.scrolled = TRUE,
                  !.no_new_tweets_count = 0,
                  !.consecutive_failed_scrolls = 0]
  ELSE [st EXCEPT !.pc = "height", !.advance = "bottom", !.scrolled = TRUE]

(* Scroll with > for >= in the test of no_new_tweets_count *)
ScrollThresholdOffByOne(st, clicked) ==
  IF st.no_new_tweets_count > max_no_new_tweets
  THEN [st EXCEPT !.pc = "height", !.advance = "recovery", !.scrolled = TRUE,
                  !.no_new_tweets_count = 0]
  ELSE [st EXCEPT !.pc = "height", !.advance = "bottom", !.scrolled = TRUE]

(* Scroll whose alternative strategy resets the count only when a *)
(* "Show more" click went through                                 *)
ScrollResetsOnClick(st, clicked) ==
  IF st.no_new_tweets_count >= max_no_new_tweets
  THEN [st EXCEPT !.pc = "height", !.advance = "recovery", !.scrolled = TRUE,
                  !.no_new_tweets_count = IF clicked THEN 0 ELSE @]
  ELSE [st EXCEPT !.pc = "height", !.advance = "bottom", !.scrolled = TRUE]

(* the alternative strategy or perform_scroll(); clicked: whether a   *)
(* "Show more" button was found and its click() returned, which the   *)
(* bare excepts of the strategy make irrelevant                       *)
Scroll(st, clicked) ==
  IF st.no_new_tweets_count >= max_no_new_tweets
  THEN [st EXCEPT !.pc = "height", !.advance = "recovery", !.scrolled = TRUE,
                  !.no_new_tweets_count = 0]
  ELSE [st EXCEPT !.pc = "height", !.advance = "bottom", !.scrolled = TRUE]

(* CheckHeight without `last_height = new_height' *)
CheckHeightKeepsLast(st, new_height) ==
  [st EXCEPT !.pc = "loop_head",
             !.supplemental = (new_height = st.last_height)]

(* new_height against last_height, the supplemental scroll *)
CheckHeight(st, new_height) ==
  [st EXCEPT !.pc = "loop_head",
             !.supplemental = (new_height = st.last_height),
             !.last_height = new_height]

(* ReturnTweets that reports a list short of the target as None *)
ReturnTweetsNoneWhenShort(st) ==
  IF Len(st.tweets) < st.num_tweets
  THEN [st EXCEPT !.pc = "done", !.ret = ReturnNone]
  ELSE [st EXCEPT !.pc = "done",
                  !.ret = ReturnList(Prefix(st.tweets, st.num_tweets))]

(* return tweets[:num_tweets] *)
ReturnTweets(st) ==
  [st EXCEPT !.pc = "done", !.ret = ReturnList(Prefix(st.tweets, st.num_tweets))]

(* ------------------------------------------------------------------ *)
(* scrape_profile_info                                                *)
(* ------------------------------------------------------------------ *)
ProfileNavigate(st, ok) ==
  IF ok THEN [st EXCEPT !.pc = "p_wait"]
  ELSE [st EXCEPT !.pc = "done", !.ret = Raised]

(* wait.until(primaryColumn) and the lookups; outcome "ok", "timeout"  *)
(* (TimeoutException) or "error" (any other exception in the try)      *)
ProfileWait(st, outcome) ==
  IF outcome = "ok" THEN [st EXCEPT !.pc = "done", !.ret = ReturnDict]
  ELSE [st EXCEPT !.pc = "done", !.ret = ReturnNone]

(* ------------------------------------------------------------------ *)
(* What the driver reports                                            *)
(* ------------------------------------------------------------------ *)
(* the adversarial page keeps one height; a drip feed grows with its posts *)
Heights == {1}

(* the ways the status link of a post may be read: found, not found *)
(* (NoSuchElementException), stale handle                           *)
LinkReads ==
  {PostElem(1), [PostElem(1) EXCEPT !.href = NoHref],
   [PostElem(1) EXCEPT !.href = NoHref, !.staleAt = 1]}

(* what the page leaves open: a drip feed decides every read, a flaky *)
(* feed all but the link lookups                                      *)
Reads(f) ==
  IF f.kind = "drip" THEN {PostElem(1)}
  ELSE IF f.kind = "flaky" THEN LinkReads ELSE ElemKinds
Glitches(f) == IF f.kind # "adversarial" THEN {FALSE} ELSE BOOLEAN
Sizes(f) == IF f.kind # "adversarial" THEN {0} ELSE 0..MaxSnap

(* does find_elements raise at scan k *)
SnapshotStale(f, k) == f.stale_from > 0 /\ k >= f.stale_from

(* the number of article handles find_elements returns at scan k *)
SnapshotSize(f, k, any_n) ==
  IF f.kind # "adversarial" THEN Loaded(f, k)
  ELSE IF k <= MaxAdvScans THEN any_n ELSE 0

(* what reading handle i yields *)
ElemRead(f, i, any_e) ==
  IF f.kind = "drip" THEN PostElem(i)
  ELSE IF f.kind = "flaky"
  THEN [PostElem(i) EXCEPT !.href = IF any_e.href = NoHref THEN NoHref ELSE @,
                           !.staleAt = any_e.staleAt]
  ELSE any_e

(* the reads of a flaky feed settle after MaxAdvScans scans *)
Settled(f, k, any_e) ==
  IF f.kind = "flaky" /\ k > MaxAdvScans THEN PostElem(1) ELSE any_e

(* document.body.scrollHeight once the content of scan k is rendered *)
ScrollHeight(f, k, any_h) ==
  IF f.kind # "adversarial" THEN Loaded(f, k) ELSE any_h

(* ------------------------------------------------------------------ *)
(* Actions.  Sessions started together run side by side: a step is    *)
(* taken by every session that stands at it, all of them seeing the   *)
(* same page; only the last-resort keys are drawn per session.        *)
(* ------------------------------------------------------------------ *)
At(p) == {s \in Sessions : sess[s].pc = p}

Lift(p, F(_)) == [s \in Sessions |-> IF sess[s].pc = p THEN F(s) ELSE sess[s]]

DoNavigate ==
  \E ok \in BOOLEAN :
    /\ At("start") # {}
    /\ UNCHANGED <<feed, app>>
    /\ sess' = Lift("start", LAMBDA s : Navigate(sess[s], ok))

DoCheckPrivate ==
  \E marker \in BOOLEAN :
    /\ At("check_private") # {}
    /\ UNCHANGED <<feed, app>>
    /\ sess' = Lift("check_private", LAMBDA s : CheckPrivate(sess[s], marker))

DoWaitTweets ==
  \E marker \in BOOLEAN, h \in Heights :
    /\ At("wait_tweets") # {}
    /\ UNCHANGED <<feed, app>>
    /\ sess' = Lift("wait_tweets",
         LAMBDA s : WaitTweets(sess[s], marker, ScrollHeight(feed, 1, h)))

DoLoopHead ==
  /\ At("loop_head") # {}
  /\ UNCHANGED <<feed, app>>
  /\ sess' = Lift("loop_head", LAMBDA s : LoopHead(sess[s]))

DoFindElements ==
  \E stale \in Glitches(feed), n \in Sizes(feed) :
    /\ At("scan") # {}
    /\ UNCHANGED <<feed, app>>
    /\ sess' = Lift("scan",
            LAMBDA s :
              FindElements(sess[s],
                           IF feed.kind # "adversarial"
                           THEN SnapshotStale(feed, sess[s].scroll_count)
                           ELSE stale /\ sess[s].scroll_count <= MaxAdvScans,
                           SnapshotSize(feed, sess[s].scroll_count, n)))

DoProcessTweet ==
  \E e \in Reads(feed), rk \in [Sessions -> RandomKeys] :
    /\ \A s \in Sessions \ At("process") : rk[s] = RandomKey(ClockTick, RandLo)
    /\ At("process") # {}
    /\ UNCHANGED <<feed, app>>
    /\ sess' = Lift("process",
            LAMBDA s :
              ProcessTweet(sess[s],
                           ElemRead(feed, sess[s].elem,
                                    Settled(feed, sess[s].scroll_count, e)),
                           rk[s]))

DoCountNewTweets ==
  /\ At("update") # {}
  /\ UNCHANGED <<feed, app>>
  /\ sess' = Lift("update", LAMBDA s : CountNewTweets(sess[s]))

DoCheckStop ==
  /\ At("decide") # {}
  /\ UNCHANGED <<feed, app>>
  /\ sess' = Lift("decide", LAMBDA s : CheckStop(sess[s]))

DoScroll ==
  \E clicked \in BOOLEAN :
    /\ At("advance") # {}
    /\ UNCHANGED <<feed, app>>
    /\ sess' = Lift("advance", LAMBDA s : Scroll(sess[s], clicked))

DoCheckHeight ==
  \E h \in Heights :
    /\ At("height") # {}
    /\ UNCHANGED <<feed, app>>
    /\ sess' = Lift("height",
         LAMBDA s :
           CheckHeight(sess[s], ScrollHeight(feed, sess[s].scroll_count + 1, h)))

DoReturnTweets ==
  /\ At("return") # {}
  /\ UNCHANGED <<feed, app>>
  /\ sess' = Lift("return", LAMBDA s : ReturnTweets(sess[s]))

DoProfileNavigate ==
  \E ok \in BOOLEAN :
    /\ At("p_start") # {}
    /\ UNCHANGED <<feed, app>>
    /\ sess' = Lift("p_start", LAMBDA s : ProfileNavigate(sess[s], ok))

DoProfileWait ==
  \E outcome \in {"ok", "timeout", "error"} :
    /\ At("p_wait") # {}
    /\ UNCHANGED <<feed, app>>
    /\ sess' = Lift("p_wait", LAMBDA s : ProfileWait(sess[s], outcome))

(* ------------------------------------------------------------------ *)
(* Specification                                                      *)
(* ------------------------------------------------------------------ *)
(* One call of scrape_tweets (or, on the adversarial page, of           *)
(* scrape_profile_info) with a target drawn from Targets; `pair' starts *)
(* a second session of the same call side by side with the first (on    *)
(* the adversarial page with target 1 only).                            *)
Init ==
  /\ feed \in Feeds
  /\ app = NoApp
  /\ \E n \in Targets(feed), op \in {"start", "p_start"}, pair \in BOOLEAN :
       /\ op = "p_start" => (n = 1 /\ feed = AdvFeed)
       /\ (pair /\ feed = AdvFeed) => n = 1
       /\ sess = [s \in Sessions |->
                    IF s = 1 \/ pair THEN NewSession(op, n)
                    ELSE NewSession("idle", n)]

Next ==
  \/ DoNavigate
  \/ DoCheckPrivate
  \/ DoWaitTweets
  \/ DoLoopHead
  \/ DoFindElements
  \/ DoProcessTweet
  \/ DoCountNewTweets
  \/ DoCheckStop
  \/ DoScroll
  \/ DoCheckHeight
  \/ DoReturnTweets
  \/ DoProfileNavigate
  \/ DoProfileWait

Spec == Init /\ [][Next]_vars

(* one session, on the feeds that load at most one post at a time;   *)
(* every driver call returns and the loop body has no other wait: a  *)
(* session that has a next step takes it                             *)
LiveInit == Init /\ sess[2].pc = "idle" /\ feed.width <= 1

LiveSpec == LiveInit /\ [][Next]_vars /\ WF_vars(Next)

(* ------------------------------------------------------------------ *)
(* Application/main.py: the request handlers that own a scraper.      *)
(* Requests are served concurrently, one thread per request: a step   *)
(* of ServerNext is one step of one request.  A request record is a   *)
(* session record extended by the request's parameters, the          *)
(* identifier and is_url it hands the scraper, the scraper            *)
(* instance it holds (0: none), the number of driver.quit() calls     *)
(* made on the driver of the instance stored at this index, the       *)
(* exception propagating out of the inner try, the status code of the *)
(* response (0: none yet), and whether the backend of its driver has  *)
(* died.  seen_tweets and quits are attributes  *)
(* of the scraper instance: a request reaches them through `scraper'. *)
(* ------------------------------------------------------------------ *)
StatusOK == 200
BadRequest == 400
Forbidden == 403
NotFound == 404
ServerError == 500
MaxCount == 100

MaxServerCount == 2

Handlers ==
  {"get_tweets_by_username", "get_tweets_by_url", "analyze_profile",
   "get_profile_info"}

NewRequest(handler, username, url, count) ==
  [handler |-> handler, username |-> username, url |-> url,
   identifier |-> "none", is_url |-> FALSE,
   scraper |-> 0, quits |-> 0, driver_dead |-> FALSE, exc |-> FALSE,
   response |-> 0]
  @@ NewSession("r_validate", count)

NoRequest == [NewRequest("none", "absent", "absent", 1) EXCEPT !.pc = "idle"]

(* what the handler hands the scraper: get_tweets_by_username the    *)
(* username, get_tweets_by_url the url, the other two the url unless *)
(* the parameter is absent (`is_url = url is not None')              *)
ChooseIdentifier(st) ==
  LET is_url == IF st.handler = "get_tweets_by_username" THEN FALSE
                ELSE IF st.handler = "get_tweets_by_url" THEN TRUE
                ELSE st.url # "absent"
  IN [st EXCEPT !.is_url = is_url,
                !.identifier = IF is_url THEN st.url ELSE st.username]

(* ValidateRequest with `count < 0' for `count <= 0' *)
ValidateRequestCountOffByOne(st) ==
  LET no_username == st.username = "absent"
      no_url == st.url \in {"absent", "empty"}
      foreign == st.url = "foreign"
      bad_count == st.num_tweets < 0 \/ st.num_tweets > MaxCount
      rejected ==
        CASE st.handler = "get_tweets_by_username" -> no_username \/ bad_count
          [] st.handler = "get_tweets_by_url" -> no_url \/ foreign \/ bad_count
          [] st.handler = "analyze_profile" ->
               foreign \/ bad_count \/ (no_username /\ no_url)
          [] st.handler = "get_profile_info" ->
               (no_username /\ no_url) \/ foreign
  IN IF rejected THEN [st EXCEPT !.pc = "end", !.response = BadRequest]
     ELSE [ChooseIdentifier(st) EXCEPT !.pc = "r_create"]

(* the parameter checks at the head of each handler; the url parameter *)
(* is absent, empty, an address that contains the name of an accepted  *)
(* host, or one that contains neither ("foreign")                      *)
ValidateRequest(st) ==
  LET no_username == st.username = "absent"
      no_url == st.url \in {"absent", "empty"}
      foreign == st.url = "foreign"
      bad_count == st.num_tweets <= 0 \/ st.num_tweets > MaxCount
      rejected ==
        CASE st.handler = "get_tweets_by_username" -> no_username \/ bad_count
          [] st.handler = "get_tweets_by_url" -> no_url \/ foreign \/ bad_count
          [] st.handler = "analyze_profile" ->
               foreign \/ bad_count \/ (no_username /\ no_url)
          [] st.handler = "get_profile_info" ->
               (no_username /\ no_url) \/ foreign
  IN IF rejected THEN [st EXCEPT !.pc = "end", !.response = BadRequest]
     ELSE [ChooseIdentifier(st) EXCEPT !.pc = "r_create"]

(* CreateScraper handing every request the instance held by request 1 *)
CreateScraperShared(st, ok, id) ==
  IF ~ok THEN [st EXCEPT !.pc = "end", !.response = ServerError]
  ELSE [st EXCEPT !.scraper = 1,
                  !.pc = IF st.handler = "get_profile_info" THEN "p_start"
                         ELSE "start"]

(* scraper = TwitterScraper(...): a new instance with its own driver   *)
(* and an empty seen_tweets, or the constructor raises into the outer  *)
(* except                                                              *)
CreateScraper(st, ok, id) ==
  IF ~ok THEN [st EXCEPT !.pc = "end", !.response = ServerError]
  ELSE [st EXCEPT !.scraper = id, !.seen_tweets = {}, !.quits = 0,
                  !.pc = IF st.handler = "get_profile_info" THEN "p_start"
                         ELSE "start"]

(* the scraper call made by the request, one step; the page decides    *)
(* every observation: the privacy marker shows on a protected profile, *)
(* articles and the primary column show when there is something to     *)
(* render                                                              *)
ScrapeStep(f, st) ==
  CASE st.pc = "start" -> Navigate(st, TRUE)
    [] st.pc = "check_private" -> CheckPrivate(st, f.protected)
    [] st.pc = "wait_tweets" ->
         WaitTweets(st, Loaded(f, 1) > 0, ScrollHeight(f, 1, 1))
    [] st.pc = "loop_head" -> LoopHead(st)
    [] st.pc = "scan" ->
         FindElements(st, SnapshotStale(f, st.scroll_count),
                      SnapshotSize(f, st.scroll_count, 0))
    [] st.pc = "process" ->
         ProcessTweet(st, ElemRead(f, st.elem, PostElem(1)),
                      RandomKey(ClockTick, RandLo))
    [] st.pc = "update" -> CountNewTweets(st)
    [] st.pc = "decide" -> CheckStop(st)
    [] st.pc = "advance" -> Scroll(st, FALSE)
    [] st.pc = "height" ->
         CheckHeight(st, ScrollHeight(f, st.scroll_count + 1, 1))
    [] st.pc = "return" -> ReturnTweets(st)
    [] st.pc = "p_start" -> ProfileNavigate(st, TRUE)
    [] st.pc = "p_wait" ->
         ProfileWait(st, IF f.protected \/ Loaded(f, 1) > 0 THEN "ok"
                         ELSE "timeout")

(* what the call returns when no other request is served meanwhile *)
RECURSIVE RunAlone(_, _)
RunAlone(f, st) ==
  IF st.pc = "done" THEN st.ret ELSE RunAlone(f, ScrapeStep(f, st))

ScrapePcs ==
  {"start", "check_private", "wait_tweets", "loop_head", "scan", "process",
   "update", "decide", "advance", "height", "return", "p_start", "p_wait"}

(* the steps that call the driver *)
DriverPcs ==
  {"start", "check_private", "wait_tweets", "scan", "process", "advance",
   "height", "p_start", "p_wait"}

(* DriverError whose failure of find_elements is handled like a stale *)
(* snapshot                                                            *)
DriverErrorAsStale(st, in_show_more) ==
  IF st.pc = "scan"
  THEN [FindElements(st, TRUE, 0) EXCEPT !.driver_dead = TRUE]
  ELSE [st EXCEPT !.pc = "done", !.ret = Raised, !.driver_dead = TRUE]

(* the backend dies during the driver call of the step: the call and   *)
(* every later one raise WebDriverException.  scrape_tweets catches    *)
(* only TimeoutException, NoSuchElementException and                   *)
(* StaleElementReferenceException, except around the "Show more"       *)
(* clicks of the alternative strategy (in_show_more), where the bare   *)
(* except lets the call run on to the height read, which raises;       *)
(* scrape_profile_info turns every exception after navigation into     *)
(* None.                                                               *)
DriverError(st, in_show_more) ==
  IF st.pc = "p_wait"
  THEN [ProfileWait(st, "error") EXCEPT !.driver_dead = TRUE]
  ELSE IF st.pc = "advance" /\ in_show_more
          /\ st.no_new_tweets_count >= max_no_new_tweets
  THEN [Scroll(st, FALSE) EXCEPT !.pc = "done", !.ret = Raised,
                                 !.driver_dead = TRUE]
  ELSE [st EXCEPT !.pc = "done", !.ret = Raised, !.driver_dead = TRUE]

(* HandleResult returning the 403/404 response without the finally *)
HandleResultEarlyReturn(st, analysis_ok) ==
  IF st.ret.kind = "raised" THEN [st EXCEPT !.pc = "r_finally", !.exc = TRUE]
  ELSE IF st.ret.kind = "none"
  THEN [st EXCEPT !.pc = "end",
                  !.response = IF st.handler = "get_profile_info"
                               THEN NotFound ELSE Forbidden]
  ELSE IF st.handler = "analyze_profile" /\ ~analysis_ok
  THEN [st EXCEPT !.pc = "r_finally", !.exc = TRUE]
  ELSE [st EXCEPT !.pc = "r_finally", !.response = StatusOK]

(* the inner try after the scraper call: the exception of the call     *)
(* propagates, None becomes 403 (404 for profile info), and a result   *)
(* becomes 200 unless the analysis of analyze_profile raises           *)
HandleResult(st, analysis_ok) ==
  IF st.ret.kind = "raised" THEN [st EXCEPT !.pc = "r_finally", !.exc = TRUE]
  ELSE IF st.ret.kind = "none"
  THEN [st EXCEPT !.pc = "r_finally",
                  !.response = IF st.handler = "get_profile_info"
                               THEN NotFound ELSE Forbidden]
  ELSE IF st.handler = "analyze_profile" /\ ~analysis_ok
  THEN [st EXCEPT !.pc = "r_finally", !.exc = TRUE]
  ELSE [st EXCEPT !.pc = "r_finally", !.response = StatusOK]

(* finally: scraper.close(), i.e. self.driver.quit(), which may raise *)
CloseScraper(st, ok) ==
  [st EXCEPT !.pc = "r_except",
             !.quits = st.quits + 1,
             !.exc = st.exc \/ ~ok,
             !.response = IF ok THEN st.response ELSE 0]

(* except Exception as e: return jsonify({"error": str(e)}), 500 *)
Respond(st) ==
  IF st.exc THEN [st EXCEPT !.pc = "end", !.response = ServerError]
  ELSE [st EXCEPT !.pc = "end"]

(* the request's record as its thread sees it: the instance attributes *)
(* are those of the instance it holds                                  *)
View(s) ==
  IF sess[s].scraper = 0 THEN sess[s]
  ELSE [sess[s] EXCEPT !.seen_tweets = sess[sess[s].scraper].seen_tweets,
                       !.quits = sess[sess[s].scraper].quits]

(* the state after request s made its record nx *)
Store(s, nx) ==
  [r \in Sessions |->
     IF nx.scraper \in {0, s}
     THEN (IF r = s THEN nx ELSE sess[r])
     ELSE IF r = s
     THEN [nx EXCEPT !.seen_tweets = sess[s].seen_tweets,
                     !.quits = sess[s].quits]
     ELSE IF r = nx.scraper
     THEN [sess[r] EXCEPT !.seen_tweets = nx.seen_tweets, !.quits = nx.quits]
     ELSE sess[r]]

ReqValidate ==
  \E s \in Sessions :
    /\ sess[s].pc = "r_validate"
    /\ UNCHANGED <<feed, app>>
    /\ sess' = Store(s, ValidateRequest(View(s)))

ReqCreateScraper ==
  \E s \in Sessions, ok \in BOOLEAN :
    /\ sess[s].pc = "r_create"
    /\ UNCHANGED <<feed, app>>
    /\ sess' = Store(s, CreateScraper(View(s), ok, s))

ReqScrape ==
  \E s \in Sessions :
    /\ sess[s].pc \in ScrapePcs
    /\ UNCHANGED <<feed, app>>
    /\ sess' = Store(s, ScrapeStep(feed, View(s)))

ReqDriverError ==
  \E s \in Sessions, in_show_more \in BOOLEAN :
    /\ sess[s].pc \in DriverPcs
    /\ in_show_more => (/\ sess[s].pc = "advance"
                        /\ sess[s].no_new_tweets_count >= max_no_new_tweets)
    /\ UNCHANGED <<feed, app>>
    /\ sess' = Store(s, DriverError(View(s), in_show_more))

ReqHandleResult ==
  \E s \in Sessions, analysis_ok \in BOOLEAN :
    /\ sess[s].pc = "done"
    /\ ~analysis_ok => (/\ sess[s].handler = "analyze_profile"
                        /\ sess[s].ret.kind = "list")
    /\ UNCHANGED <<feed, app>>
    /\ sess' = Store(s, HandleResult(View(s), analysis_ok))

ReqCloseScraper ==
  \E s \in Sessions, ok \in BOOLEAN :
    /\ sess[s].pc = "r_finally"
    /\ UNCHANGED <<feed, app>>
    /\ sess' = Store(s, CloseScraper(View(s), ok))

ReqRespond ==
  \E s \in Sessions :
    /\ sess[s].pc = "r_except"
    /\ UNCHANGED <<feed, app>>
    /\ sess' = Store(s, Respond(View(s)))

(* the pages the requests are pointed at: a profile with `first' posts *)
(* and nothing more to load, protected or not                          *)
ServerFeeds ==
  {[protected |-> b] @@ f :
     b \in BOOLEAN,
     f \in {g \in DripFeeds : /\ g.total = g.first /\ g.first <= 1
                              /\ g.gap = 1 /\ g.stale_from = 0}}

ServerCounts == 0..MaxServerCount \cup {MaxCount + 1}

Requests ==
  {r \in {NewRequest(h, u, v, c) :
            h \in Handlers, u \in {"absent", "name"},
            v \in {"absent", "empty", "foreign", "accepted"},
            c \in ServerCounts} :
     /\ r.handler = "get_tweets_by_username" => r.url = "absent"
     /\ r.handler = "get_tweets_by_url" => r.username = "absent"
     /\ r.handler = "get_profile_info" => r.num_tweets = 1}

(* the requests a second client sends meanwhile *)
SecondRequests ==
  {NoRequest} \cup
  {r \in Requests : /\ r.handler = "get_tweets_by_url" /\ r.url = "accepted"
                    /\ r.num_tweets \in {1, MaxServerCount}}

ServerInit ==
  /\ feed \in ServerFeeds
  /\ app = NoApp
  /\ \E r1 \in Requests, r2 \in SecondRequests :
       sess = [s \in Sessions |-> IF s = 1 THEN r1 ELSE r2]

ServerNext ==
  \/ ReqValidate
  \/ ReqCreateScraper
  \/ ReqScrape
  \/ ReqDriverError
  \/ ReqHandleResult
  \/ ReqCloseScraper
  \/ ReqRespond

ServerSpec == ServerInit /\ [][ServerNext]_vars

(* ------------------------------------------------------------------ *)
(* get_profile_url and extract_username_from_url, on strings of       *)
(* character codes                                                    *)
(* ------------------------------------------------------------------ *)
Colon == 40
Slash == 41
Dot == 42
Question == 43
AtSign == 44
Space == 45

LetterC == Letter(3)
LetterE == Letter(5)
LetterH == Letter(8)
LetterI == Letter(9)
LetterM == Letter(13)
LetterO == Letter(15)
LetterP == Letter(16)
LetterR == Letter(18)
LetterS == Letter(19)
LetterT == Letter(20)
LetterW == Letter(23)
LetterX == Letter(24)

HttpP == <<LetterH, LetterT, LetterT, LetterP, Colon, Slash, Slash>>
HttpsP == <<LetterH, LetterT, LetterT, LetterP, LetterS, Colon, Slash, Slash>>
Www == <<LetterW, LetterW, LetterW, Dot>>
XCom == <<LetterX, Dot, LetterC, LetterO, LetterM>>
TwitterCom ==
  <<LetterT, LetterW, LetterI, LetterT, LetterT, LetterE, LetterR, Dot,
    LetterC, LetterO, LetterM>>

(* s[k:] *)
Drop(s, k) == SubSeq(s, k + 1, Len(s))

(* s.startswith(p) *)
StartsWith(s, p) == Len(s) >= Len(p) /\ SubSeq(s, 1, Len(p)) = p

(* s.find(p) + 1: the first position where p occurs in s, 0 when none *)
Find(s, p) ==
  LET hits == {i \in 1..(Len(s) - Len(p) + 1) : SubSeq(s, i, i + Len(p) - 1) = p}
  IN IF hits = {} THEN 0 ELSE CHOOSE i \in hits : \A j \in hits : i <= j

(* p in s *)
Contains(s, p) == Find(s, p) # 0

(* s.replace(old, new) *)
RECURSIVE Replace(_, _, _)
Replace(s, old, new) ==
  LET i == Find(s, old) IN
  IF i = 0 THEN s
  ELSE SubSeq(s, 1, i - 1) \o new \o Replace(Drop(s, i - 1 + Len(old)), old, new)

(* s.lstrip(chars), s.rstrip(chars), s.strip() *)
RECURSIVE LStrip(_, _)
LStrip(s, chars) ==
  IF s # <<>> /\ Head(s) \in chars THEN LStrip(Tail(s), chars) ELSE s

RECURSIVE RStrip(_, _)
RStrip(s, chars) ==
  IF s # <<>> /\ s[Len(s)] \in chars
  THEN RStrip(SubSeq(s, 1, Len(s) - 1), chars) ELSE s

Strip(s) == RStrip(LStrip(s, {Space}), {Space})

(* the longest prefix of s without any of the characters in stops *)
RECURSIVE Span(_, _)
Span(s, stops) ==
  IF s = <<>> \/ Head(s) \in stops THEN <<>>
  ELSE <<Head(s)>> \o Span(Tail(s), stops)

(* group 1 of a match of                                               *)
(*   (?:https?:\/\/)?(?:www\.)?(?:twitter\.com|x\.com)\/([^\/?\s]+)    *)
(* that starts at the head of s; <<>> when there is none.  The         *)
(* optional parts are tried present first, as the regex engine does.   *)
MatchHost(s) ==
  IF StartsWith(s, TwitterCom \o <<Slash>>)
  THEN Span(Drop(s, Len(TwitterCom) + 1), {Slash, Question, Space})
  ELSE IF StartsWith(s, XCom \o <<Slash>>)
  THEN Span(Drop(s, Len(XCom) + 1), {Slash, Question, Space})
  ELSE <<>>

MatchWww(s) ==
  IF StartsWith(s, Www) /\ MatchHost(Drop(s, Len(Www))) # <<>>
  THEN MatchHost(Drop(s, Len(Www)))
  ELSE MatchHost(s)

MatchProtocol(s) ==
  IF StartsWith(s, HttpsP) /\ MatchWww(Drop(s, Len(HttpsP))) # <<>>
  THEN MatchWww(Drop(s, Len(HttpsP)))
  ELSE IF StartsWith(s, HttpP) /\ MatchWww(Drop(s, Len(HttpP))) # <<>>
  THEN MatchWww(Drop(s, Len(HttpP)))
  ELSE MatchWww(s)

(* re.search: the match at the leftmost position that has one *)
RECURSIVE Search(_)
Search(s) ==
  IF s = <<>> THEN <<>>
  ELSE IF MatchProtocol(s) # <<>> THEN MatchProtocol(s)
  ELSE Search(Tail(s))

extract_username_from_url(url) ==
  IF Search(url) # <<>> THEN Span(Search(url), {Question}) ELSE url

(* get_profile_url whose branch for addresses with a protocol returns *)
(* the address without replacing the host                            *)
get_profile_url_KeepsHost(identifier, is_url) ==
  LET url == Strip(identifier)
      swapped == Replace(url, TwitterCom, XCom)
  IN
  IF is_url
  THEN IF StartsWith(url, HttpP) \/ StartsWith(url, HttpsP) THEN url
       ELSE IF StartsWith(url, XCom \o <<Slash>>)
               \/ StartsWith(url, TwitterCom \o <<Slash>>)
       THEN HttpsP \o swapped
       ELSE IF Contains(url, XCom \o <<Slash>>)
               \/ Contains(url, TwitterCom \o <<Slash>>)
       THEN HttpsP \o swapped
       ELSE HttpsP \o XCom \o <<Slash>> \o extract_username_from_url(identifier)
  ELSE HttpsP \o XCom \o <<Slash>> \o LStrip(Strip(identifier), {AtSign})

get_profile_url(identifier, is_url) ==
  LET url == Strip(identifier)
      swapped == Replace(url, TwitterCom, XCom)
  IN
  IF is_url
  THEN IF StartsWith(url, HttpP) \/ StartsWith(url, HttpsP) THEN swapped
       ELSE IF StartsWith(url, XCom \o <<Slash>>)
               \/ StartsWith(url, TwitterCom \o <<Slash>>)
       THEN HttpsP \o swapped
       ELSE IF Contains(url, XCom \o <<Slash>>)
               \/ Contains(url, TwitterCom \o <<Slash>>)
       THEN HttpsP \o swapped
       ELSE HttpsP \o XCom \o <<Slash>> \o extract_username_from_url(identifier)
  ELSE HttpsP \o XCom \o <<Slash>> \o LStrip(Strip(identifier), {AtSign})

(* the inputs: optional blanks, protocol, www prefix and host, a       *)
(* separator, a profile name of at most MaxNameLen characters or one   *)
(* that spells a host, and an optional query, in that order            *)
MaxNameLen == 2

NameChars == {LetterA, AtSign}

(* and the two names that spell an accepted host *)
Names ==
  UNION {[1..k -> NameChars] : k \in 0..MaxNameLen} \cup {XCom, TwitterCom}

Identifiers ==
  {pad \o proto \o www \o host \o sep \o name \o query \o pad2 :
     pad \in {<<>>, <<Space>>}, proto \in {<<>>, HttpP, HttpsP},
     www \in {<<>>, Www}, host \in {<<>>, XCom, TwitterCom},
     sep \in {<<>>, <<Slash>>}, name \in Names,
     query \in {<<>>, <<Question, LetterA>>}, pad2 \in {<<>>, <<Space>>}}

(* a call of get_profile_url: its arguments and, once it returned, its *)
(* result                                                              *)
NewUrlCall(identifier, is_url) ==
  [pc |-> "url_call", identifier |-> identifier, is_url |-> is_url,
   url |-> <<>>]

GetProfileUrl(st) ==
  [st EXCEPT !.pc = "url_done",
             !.url = get_profile_url(st.identifier, st.is_url)]

DoGetProfileUrl ==
  \E s \in Sessions :
    /\ sess[s].pc = "url_call"
    /\ UNCHANGED <<feed, app>>
    /\ sess' = [sess EXCEPT ![s] = GetProfileUrl(sess[s])]

(* the same address on the other accepted host *)
TwitterForm(identifier) == Replace(identifier, XCom, TwitterCom)

(* session 1 is given an identifier, session 2 the same identifier *)
(* behind a mention marker or in its twitter.com form               *)
UrlInit ==
  /\ feed = AdvFeed
  /\ app = NoApp
  /\ \E identifier \in Identifiers, is_url \in BOOLEAN,
        twin \in {"marker", "host"} :
       sess = [s \in Sessions |->
                 NewUrlCall(IF s = 1 THEN identifier
                            ELSE IF twin = "marker" THEN <<AtSign>> \o identifier
                            ELSE TwitterForm(identifier),
                            is_url)]

UrlNext == DoGetProfileUrl

UrlSpec == UrlInit /\ [][UrlNext]_vars

(* ------------------------------------------------------------------ *)
(* Application/main.py: get_user_analyses and the analyses table.     *)
(* A token is the user id login_user put into it as its identity      *)
(* (0: the request carries no valid token); an email address is named *)
(* by the user it belongs to; a row of the table is the email it was  *)
(* saved under and its number among the rows of that email.           *)
(* ------------------------------------------------------------------ *)
Unauthorized == 401

MaxAnalyses == 2

Users == {1, 2}

EmailOf(u) == <<"email", u>>

Emails == {EmailOf(u) : u \in Users}

NoEmail == <<"email", 0>>

NewAnalysesRequest(token, email) ==
  [pc |-> "a_auth", handler |-> "get_user_analyses", token |-> token,
   email |-> email, analyses |-> {}, response |-> 0]

(* @jwt_required(): a request without a valid token is answered 401 *)
(* before the handler body runs                                     *)
JwtRequired(st) ==
  IF st.token = 0 THEN [st EXCEPT !.pc = "end", !.response = Unauthorized]
  ELSE [st EXCEPT !.pc = "a_query"]

(* Analysis.get_analyses_by_user(email): the rows saved under email *)
get_analyses_by_user(table, email) == {a \in table : a.email = email}

(* Analysis.add_analysis() of the row analyze_profile built for email *)
add_analysis(table, email) ==
  table \cup
    {[email |-> email,
      n |-> Cardinality(get_analyses_by_user(table, email)) + 1]}

(* the body of get_user_analyses: the lookup by the email parameter  *)
(* of the query string, or one of its except clauses                 *)
GetUserAnalyses(st, table, outcome) ==
  CASE outcome = "ok" ->
         [st EXCEPT !.pc = "end", !.response = StatusOK,
                    !.analyses = get_analyses_by_user(table, st.email)]
    [] outcome = "value_error" ->
         [st EXCEPT !.pc = "end", !.response = BadRequest]
    [] outcome = "db_error" ->
         [st EXCEPT !.pc = "end", !.response = ServerError]

DoJwtRequired ==
  \E s \in Sessions :
    /\ sess[s].pc = "a_auth"
    /\ UNCHANGED <<feed, app>>
    /\ sess' = [sess EXCEPT ![s] = JwtRequired(sess[s])]

DoGetUserAnalyses ==
  \E s \in Sessions, outcome \in {"ok", "value_error", "db_error"} :
    /\ sess[s].pc = "a_query"
    /\ outcome = "value_error" => sess[s].email = NoEmail
    /\ UNCHANGED <<feed, app>>
    /\ sess' = [sess EXCEPT ![s] = GetUserAnalyses(sess[s], app.analyses, outcome)]

(* analyze_profile, called with an email parameter, saves its analysis *)
DoAddAnalysis ==
  \E email \in Emails :
    /\ Cardinality(get_analyses_by_user(app.analyses, email)) < MaxAnalyses
    /\ UNCHANGED <<sess, feed>>
    /\ app' = [app EXCEPT !.analyses = add_analysis(app.analyses, email)]

AnalysesInit ==
  /\ feed = AdvFeed
  /\ app = NoApp
  /\ sess \in [Sessions ->
                 {NewAnalysesRequest(token, email) :
                    token \in {0} \cup Users, email \in Emails \cup {NoEmail}}]

AnalysesNext ==
  \/ DoJwtRequired
  \/ DoGetUserAnalyses
  \/ DoAddAnalysis

AnalysesSpec == AnalysesInit /\ [][AnalysesNext]_vars

(* ------------------------------------------------------------------ *)
(* Application/main.py: analyze_profile called with an email          *)
(* parameter.  The request record carries the parameter (NoEmail:     *)
(* absent or empty) and the saved_to_db and db_error entries of the   *)
(* response ("unset": the response has none); save_failed records    *)
(* that the database refused the save the request attempted.  The     *)
(* steps before and after the inner try are those of the other        *)
(* handlers.                                                          *)
(* ------------------------------------------------------------------ *)
NewAnalyzeRequest(count, email) ==
  NewRequest("analyze_profile", "name", "absent", count)
    @@ [email |-> email, saved_to_db |-> "unset", db_error |-> FALSE,
        save_failed |-> FALSE]

(* SaveAnalysis whose except clause lets the database error out into *)
(* the handler's outer except                                        *)
SaveAnalysisPropagates(st, table, db_ok) ==
  IF st.email = NoEmail
  THEN [st |-> [st EXCEPT !.saved_to_db = "false"], table |-> table]
  ELSE IF db_ok
  THEN [st |-> [st EXCEPT !.saved_to_db = "true"],
        table |-> add_analysis(table, st.email)]
  ELSE [st |-> [st EXCEPT !.exc = TRUE, !.response = 0], table |-> table]

(* `if email:' and the try around Analysis(...).add_analysis(): the *)
(* request's record and the table afterwards                        *)
SaveAnalysis(st, table, db_ok) ==
  IF st.email = NoEmail
  THEN [st |-> [st EXCEPT !.saved_to_db = "false"], table |-> table]
  ELSE IF db_ok
  THEN [st |-> [st EXCEPT !.saved_to_db = "true"],
        table |-> add_analysis(table, st.email)]
  ELSE [st |-> [st EXCEPT !.saved_to_db = "false", !.db_error = TRUE],
        table |-> table]

(* the inner try of analyze_profile after the scraper call: the       *)
(* analysis, then, with the response built, the save                  *)
ReqAnalyzeAndSave ==
  \E s \in Sessions, analysis_ok \in BOOLEAN, db_ok \in BOOLEAN :
    LET analyzed == HandleResult(View(s), analysis_ok)
        saved == IF analyzed.response = StatusOK
                 THEN SaveAnalysis(analyzed, app.analyses, db_ok)
                 ELSE [st |-> analyzed, table |-> app.analyses]
    IN /\ sess[s].pc = "done"
       /\ ~analysis_ok => sess[s].ret.kind = "list"
       /\ UNCHANGED feed
       /\ sess' = Store(s, [saved.st EXCEPT !.save_failed =
                                /\ analyzed.response = StatusOK
                                /\ analyzed.email # NoEmail
                                /\ ~db_ok])
       /\ app' = [app EXCEPT !.analyses = saved.table]

SaveInit ==
  /\ feed \in ServerFeeds
  /\ app = NoApp
  /\ \E c \in 1..MaxServerCount, e1 \in {NoEmail, EmailOf(1)},
        e2 \in Emails, second \in BOOLEAN :
       sess = [s \in Sessions |->
                 IF s = 1 THEN NewAnalyzeRequest(c, e1)
                 ELSE IF second THEN NewAnalyzeRequest(1, e2)
                 ELSE [NewAnalyzeRequest(1, e2) EXCEPT !.pc = "idle"]]

SaveNext ==
  \/ ReqValidate
  \/ ReqCreateScraper
  \/ ReqScrape
  \/ ReqDriverError
  \/ ReqAnalyzeAndSave
  \/ ReqCloseScraper
  \/ ReqRespond

SaveSpec == SaveInit /\ [][SaveNext]_vars

(* ------------------------------------------------------------------ *)
(* Application/main.py: login_user, logout_user and the blocklist      *)
(* callback of the JWT-protected routes.  A token is its jti and the   *)
(* user id login_user gave it as identity; the application keeps the   *)
(* tokens it issued (any client may present any of them) and           *)
(* token_blacklist.  A client sends one request at a time; after tells *)
(* whether the token of its request was in token_blacklist when the    *)
(* request was sent.                                                   *)
(* ------------------------------------------------------------------ *)
MaxTokens == 2

NoToken == [jti |-> 0, identity |-> 0]

AuthApp == NoApp @@ [tokens |-> {}, token_blacklist |-> {}]

IdleClient ==
  [pc |-> "idle", handler |-> "none", token |-> NoToken, response |-> 0,
   after |-> FALSE]

ProtectedHandlers == {"logout_user", "get_user_analyses"}

(* create_access_token(identity=user_id): a token with a jti of its own *)
create_access_token(tokens, user_id) ==
  [jti |-> Cardinality(tokens) + 1, identity |-> user_id]

(* VerifyJwt that does not consult check_if_token_revoked *)
VerifyJwtIgnoresBlacklist(st, token_blacklist) ==
  IF st.token = NoToken
  THEN [st EXCEPT !.pc = "end", !.response = Unauthorized]
  ELSE [st EXCEPT !.pc = "a_body"]

(* @jwt_required() with check_if_token_revoked registered: no token, *)
(* or a token whose jti is in token_blacklist, is answered 401       *)
VerifyJwt(st, token_blacklist) ==
  IF st.token = NoToken \/ st.token.jti \in token_blacklist
  THEN [st EXCEPT !.pc = "end", !.response = Unauthorized]
  ELSE [st EXCEPT !.pc = "a_body"]

(* login_user answering 200 with a new token *)
DoLogin ==
  \E u \in Users :
    /\ Cardinality(app.tokens) < MaxTokens
    /\ UNCHANGED <<sess, feed>>
    /\ app' = [app EXCEPT !.tokens = @ \cup {create_access_token(@, u)}]

DoSendRequest ==
  \E s \in Sessions, h \in ProtectedHandlers, t \in app.tokens \cup {NoToken} :
    /\ sess[s].pc \in {"idle", "end"}
    /\ UNCHANGED <<feed, app>>
    /\ sess' = [sess EXCEPT ![s] =
                  [pc |-> "a_auth", handler |-> h, token |-> t, response |-> 0,
                   after |-> t.jti \in app.token_blacklist]]

DoVerifyJwt ==
  \E s \in Sessions :
    /\ sess[s].pc = "a_auth"
    /\ UNCHANGED <<feed, app>>
    /\ sess' = [sess EXCEPT ![s] = VerifyJwt(sess[s], app.token_blacklist)]

(* the body of logout_user: self.token_blacklist.add(jti), 200 *)
DoLogout ==
  \E s \in Sessions :
    /\ sess[s].pc = "a_body" /\ sess[s].handler = "logout_user"
    /\ UNCHANGED feed
    /\ app' = [app EXCEPT !.token_blacklist = @ \cup {sess[s].token.jti}]
    /\ sess' = [sess EXCEPT ![s].pc = "end", ![s].response = StatusOK]

(* the body of another protected route, answered by the handler *)
DoProtectedBody ==
  \E s \in Sessions :
    /\ sess[s].pc = "a_body" /\ sess[s].handler # "logout_user"
    /\ UNCHANGED <<feed, app>>
    /\ sess' = [sess EXCEPT ![s].pc = "end", ![s].response = StatusOK]

AuthInit ==
  /\ feed = AdvFeed
  /\ app = AuthApp
  /\ sess = [s \in Sessions |-> IdleClient]

AuthNext ==
  \/ DoLogin
  \/ DoSendRequest
  \/ DoVerifyJwt
  \/ DoLogout
  \/ DoProtectedBody

AuthSpec == AuthInit /\ [][AuthNext]_vars

(* ------------------------------------------------------------------ *)
(* Application/main.py: initialize_models, the before_request hook,   *)
(* under requests served by concurrent threads.  preprocessor and     *)
(* ocean_analyzer are the attributes of the application (FALSE, 0:    *)
(* None; an analyzer instance is named by the request that made it);  *)
(* model[i] is self.model of analyzer instance i: "none", "unfitted"  *)
(* (built by train, fit not finished) or "ready" (loaded, or fit      *)
(* finished).  A request record holds whether its path is static, the *)
(* instance whose train method it runs, and what its handler found as *)
(* the model of the analyzer when it called analyze.                  *)
(* ------------------------------------------------------------------ *)
ModelsApp ==
  NoApp @@ [preprocessor |-> FALSE, ocean_analyzer |-> 0,
            model |-> [i \in Sessions |-> "none"]]

NewModelsRequest(static) ==
  [pc |-> "i_check", static |-> static, inst |-> 0, used |-> "unset",
   response |-> 0]

(* the tests at the head of initialize_models *)
CheckModels(st, a) ==
  IF st.static THEN [st EXCEPT !.pc = "end", !.response = StatusOK]
  ELSE IF ~a.preprocessor \/ a.ocean_analyzer = 0
  THEN [st EXCEPT !.pc = "i_pre"]
  ELSE [st EXCEPT !.pc = "h_analyze"]

(* self.ocean_analyzer.analyze(...) in the handler: analyze raises *)
(* when self.model is None, else it predicts with the model        *)
Analyze(st, a) ==
  IF a.model[a.ocean_analyzer] = "none"
  THEN [st EXCEPT !.pc = "end", !.used = "none", !.response = ServerError]
  ELSE [st EXCEPT !.pc = "end", !.used = a.model[a.ocean_analyzer],
                  !.response = StatusOK]

DoCheckModels ==
  \E s \in Sessions :
    /\ sess[s].pc = "i_check"
    /\ UNCHANGED <<feed, app>>
    /\ sess' = [sess EXCEPT ![s] = CheckModels(sess[s], app)]

(* self.preprocessor = TextPreprocessor() *)
DoSetPreprocessor ==
  \E s \in Sessions :
    /\ sess[s].pc = "i_pre"
    /\ UNCHANGED feed
    /\ app' = [app EXCEPT !.preprocessor = TRUE]
    /\ sess' = [sess EXCEPT ![s].pc = "i_new"]

(* self.ocean_analyzer = OceanAnalyzer(self.preprocessor) *)
DoSetAnalyzer ==
  \E s \in Sessions :
    /\ sess[s].pc = "i_new"
    /\ UNCHANGED feed
    /\ app' = [app EXCEPT !.ocean_analyzer = s, !.model[s] = "none"]
    /\ sess' = [sess EXCEPT ![s].pc = "i_load"]

(* model_loaded = self.ocean_analyzer.load_model() *)
DoLoadModel ==
  \E s \in Sessions, model_loaded \in BOOLEAN :
    /\ sess[s].pc = "i_load"
    /\ UNCHANGED feed
    /\ app' = IF model_loaded
              THEN [app EXCEPT !.model[app.ocean_analyzer] = "ready"]
              ELSE app
    /\ sess' = [sess EXCEPT ![s].pc = IF model_loaded THEN "h_analyze"
                                      ELSE "i_build"]

(* self.ocean_analyzer.train(...) up to self.model = self.build_model() *)
DoBuildModel ==
  \E s \in Sessions :
    /\ sess[s].pc = "i_build"
    /\ UNCHANGED feed
    /\ app' = [app EXCEPT !.model[app.ocean_analyzer] = "unfitted"]
    /\ sess' = [sess EXCEPT ![s].pc = "i_fit", ![s].inst = app.ocean_analyzer]

(* self.model.fit(...) returns *)
DoFitModel ==
  \E s \in Sessions :
    /\ sess[s].pc = "i_fit"
    /\ UNCHANGED feed
    /\ app' = [app EXCEPT !.model[sess[s].inst] = "ready"]
    /\ sess' = [sess EXCEPT ![s].pc = "h_analyze"]

DoAnalyze ==
  \E s \in Sessions :
    /\ sess[s].pc = "h_analyze"
    /\ UNCHANGED <<feed, app>>
    /\ sess' = [sess EXCEPT ![s] = Analyze(sess[s], app)]

(* the next request on the connection *)
DoNextRequest ==
  \E s \in Sessions, static \in BOOLEAN :
    /\ sess[s].pc = "end"
    /\ UNCHANGED <<feed, app>>
    /\ sess' = [sess EXCEPT ![s] = NewModelsRequest(static)]

ModelsInit ==
  /\ feed = AdvFeed
  /\ app = ModelsApp
  /\ sess \in [Sessions -> {NewModelsRequest(static) : static \in BOOLEAN}]

ModelsNext ==
  \/ DoCheckModels
  \/ DoSetPreprocessor
  \/ DoSetAnalyzer
  \/ DoLoadModel
  \/ DoBuildModel
  \/ DoFitModel
  \/ DoAnalyze
  \/ DoNextRequest

ModelsSpec == ModelsInit /\ [][ModelsNext]_vars

(* ------------------------------------------------------------------ *)
(* get_tweet_id called on its own: each session holds the element it  *)
(* is given, the key its last resort would draw, and the result       *)
(* ------------------------------------------------------------------ *)
NewIdCall(e, rk) ==
  [pc |-> "id_call", tweet_element |-> e, rk |-> rk, tweet_id |-> <<>>]

GetTweetId(st) ==
  [st EXCEPT !.pc = "id_done",
             !.tweet_id = get_tweet_id(st.tweet_element, st.rk)]

DoGetTweetId ==
  \E s \in Sessions :
    /\ sess[s].pc = "id_call"
    /\ UNCHANGED <<feed, app>>
    /\ sess' = [sess EXCEPT ![s] = GetTweetId(sess[s])]

IdInit ==
  /\ feed = AdvFeed
  /\ app = NoApp
  /\ \E e \in [Sessions -> ElemKinds], rk \in [Sessions -> RandomKeys] :
       sess = [s \in Sessions |-> NewIdCall(e[s], rk[s])]

IdNext == DoGetTweetId

IdSpec == IdInit /\ [][IdNext]_vars

(* ------------------------------------------------------------------ *)
(* scrape_tweets called several times in sequence on one scraper      *)
(* instance.  Every call loads the page anew; self.seen_tweets is an  *)
(* attribute of the instance and outlives a call, the other variables *)
(* of scrape_tweets are locals of the call.  The page decides every   *)
(* observation but, on the adversarial page, the snapshot sizes and   *)
(* what the handles show.  calls counts the calls made on the         *)
(* instance; ids and blank record, for the running call, the identity *)
(* under which each collected tweet was appended and the identities   *)
(* first observed with no readable text, reshown those of them that   *)
(* a later observation showed with a text.                            *)
(* ------------------------------------------------------------------ *)
MaxCalls == 2

CallFeeds ==
  {[protected |-> b] @@ f :
     b \in BOOLEAN,
     f \in {d \in DripFeeds : d.total < Endless /\ d.stale_from = 0}
             \cup {[AdvFeed EXCEPT !.first = 1, !.total = 1, !.gap = 1]}}

FirstCall(n) ==
  NewSession("start", n) @@ [calls |-> 1, ids |-> <<>>, blank |-> {}, reshown |-> {}]

(* the next call on the instance: fresh locals, the instance's set *)
NextCall(st, n) ==
  [NewSession("start", n) EXCEPT !.seen_tweets = st.seen_tweets]
    @@ [calls |-> st.calls + 1, ids |-> <<>>, blank |-> {}, reshown |-> {}]

Unreadable(e) == e.staleAt <= 3 \/ e.text = <<>>

(* what a handle may show in these calls: with or without a status *)
(* link, with or without text, the text lookup stale or not        *)
CallReads(f) ==
  IF f.kind # "adversarial" THEN Reads(f)
  ELSE {e \in ElemKinds : /\ e.href \in {NoHref, <<1>>}
                          /\ e.text \in {<<>>, LongA}
                          /\ e.staleAt >= 3}

Identities(st) == {st.ids[i] : i \in 1..Len(st.ids)}

CallStep ==
  \E s \in Sessions :
    /\ sess[s].pc \in ScrapePcs \ {"scan", "process"}
    /\ UNCHANGED <<feed, app>>
    /\ sess' = [sess EXCEPT ![s] = ScrapeStep(feed, sess[s])]

CallFindElements ==
  \E s \in Sessions, n \in Sizes(feed) :
    /\ sess[s].pc = "scan"
    /\ UNCHANGED <<feed, app>>
    /\ sess' = [sess EXCEPT ![s] =
                  FindElements(sess[s], FALSE,
                               SnapshotSize(feed, sess[s].scroll_count, n))]

CallProcessTweet ==
  \E s \in Sessions, any_e \in CallReads(feed), rk \in RandomKeys :
    LET st == sess[s]
        e == ElemRead(feed, st.elem, any_e)
        tweet_id == get_tweet_id(e, rk)
        nx == ProcessTweet(st, e, rk)
        first == tweet_id \notin st.blank \cup Identities(st)
    IN /\ st.pc = "process"
       /\ UNCHANGED <<feed, app>>
       /\ sess' = [sess EXCEPT ![s] =
            [nx EXCEPT !.ids = IF Len(nx.tweets) > Len(st.tweets)
                               THEN Append(@, tweet_id) ELSE @,
                       !.blank = IF first /\ Unreadable(e)
                                 THEN @ \cup {tweet_id} ELSE @,
                       !.reshown = IF tweet_id \in st.blank /\ ~Unreadable(e)
                                   THEN @ \cup {tweet_id} ELSE @]]

CallAgain ==
  \E s \in Sessions, n \in Targets(feed) :
    /\ sess[s].pc = "done"
    /\ sess[s].calls < MaxCalls
    /\ UNCHANGED <<feed, app>>
    /\ sess' = [sess EXCEPT ![s] = NextCall(sess[s], n)]

CallsInit ==
  /\ feed \in CallFeeds
  /\ app = NoApp
  /\ \E n \in Targets(feed) :
       sess = [s \in Sessions |->
                 IF s = 1 THEN FirstCall(n) ELSE NewSession("idle", n)]

CallsNext ==
  \/ CallStep
  \/ CallFindElements
  \/ CallProcessTweet
  \/ CallAgain

CallsSpec == CallsInit /\ [][CallsNext]_vars

(* ------------------------------------------------------------------ *)
(* Properties                                                         *)
(* ------------------------------------------------------------------ *)
Started(s) == sess[s].pc # "idle"

(* between the first loop-head check and the return statement *)
InLoop(st) ==
  st.pc \in {"loop_head", "scan", "process", "update", "decide", "advance",
             "height", "return"}

(* the texts of posts 1..m in feed order *)
PostTexts(m) == [i \in 1..m |-> PostText(i)]

(* C1: at every point of the scan loop the number of collected tweets *)
(* equals the number of identities in seen_tweets.                    *)
C1_DedupInvariant ==
  \A s \in Sessions :
    InLoop(sess[s]) => Len(sess[s].tweets) = Cardinality(sess[s].seen_tweets)

(* C2: at every point of a session at most num_tweets tweets are      *)
(* collected, and the returned list has at most num_tweets items.     *)
C2_TargetBound ==
  \A s \in Sessions :
    /\ Len(sess[s].tweets) <= sess[s].num_tweets
    /\ sess[s].ret.kind = "list" => Len(sess[s].ret.val) <= sess[s].num_tweets

(* a session returned exactly num_tweets tweets although the page     *)
(* rendered more posts than that in one snapshot                      *)
C2_Witness ==
  \E s \in Sessions :
    /\ feed.kind = "drip" /\ feed.first > sess[s].num_tweets
    /\ sess[s].ret.kind = "list"
    /\ Len(sess[s].ret.val) = sess[s].num_tweets

(* C3: a well-formed feed that re-renders the posts it has loaded and *)
(* lets new ones appear later is returned as its distinct posts, each *)
(* once, in order of first appearance: the result is the texts of     *)
(* posts 1..m, m the smaller of the target and the posts rendered.    *)
C3_DedupCorrect ==
  \A s \in Sessions :
    (/\ feed.kind = "drip" /\ feed.stale_from = 0
     /\ sess[s].scanned /\ sess[s].pc = "done")
    => sess[s].ret =
         ReturnList(PostTexts(Min(sess[s].num_tweets,
                                  Loaded(feed, sess[s].scroll_count))))

(* 3 posts re-rendered over 5 scans, then a 4th and last one, target 10 *)
C3_Witness ==
  \E s \in Sessions :
    /\ feed.kind = "drip" /\ feed.stale_from = 0
    /\ feed.first = 3 /\ feed.gap = 5 /\ feed.width = 1 /\ feed.total = 4
    /\ sess[s].num_tweets = 10 /\ sess[s].pc = "done"
    /\ sess[s].ret = ReturnList(PostTexts(4))

(* a feed that loads new well-formed posts at every scan, target 10 *)
UniqueFeedTarget10(s) ==
  /\ feed.kind = "drip" /\ feed.stale_from = 0
  /\ feed.gap = 1 /\ feed.first >= 1 /\ feed.total = Endless
  /\ sess[s].num_tweets = 10

(* C4: with target 10 and new posts at every scan the loop is left in *)
(* the first state with 10 collected tweets, never holds 11, uses at  *)
(* most 50 scroll attempts and returns exactly 10 tweets.             *)
C4_TargetConvergence ==
  \A s \in Sessions :
    UniqueFeedTarget10(s) =>
      /\ Len(sess[s].tweets) <= 10
      /\ Len(sess[s].tweets) = 10 =>
           sess[s].pc \in {"update", "decide", "return", "done"}
      /\ (sess[s].pc = "done" /\ sess[s].scanned) =>
           /\ sess[s].exit = "target"
           /\ sess[s].scroll_count <= max_scroll_attempts
           /\ sess[s].ret.kind = "list" /\ Len(sess[s].ret.val) = 10

(* 3 posts, then 2 more per scan: the 10th is the first of two new ones *)
C4_Witness ==
  \E s \in Sessions :
    /\ UniqueFeedTarget10(s) /\ feed.first = 3 /\ feed.width = 2
    /\ sess[s].pc = "done" /\ sess[s].ret = ReturnList(PostTexts(10))

(* C5: when nothing new appears after the first scan and the target   *)
(* exceeds what the first scan gave, the loop ends with exactly 8     *)
(* consecutive stalls and the tweets of the first scan are returned.  *)
C5_StallTermination ==
  \A s \in Sessions :
    (/\ feed.kind = "drip" /\ feed.total = feed.first /\ feed.stale_from # 1
     /\ sess[s].num_tweets > feed.first
     /\ sess[s].scanned /\ sess[s].pc = "done")
    => /\ sess[s].exit = "stall"
       /\ sess[s].consecutive_failed_scrolls = max_consecutive_failures
       /\ sess[s].ret = ReturnList(PostTexts(feed.first))

(* C6: once the privacy marker is found the session has returned None  *)
(* and has issued no scan and no scroll; a session that failed to      *)
(* navigate has not entered the loop either.                           *)
C6_PrivateShortCircuit ==
  \A s \in Sessions :
    /\ sess[s].private_element =>
         /\ sess[s].pc = "done" /\ sess[s].ret = ReturnNone
         /\ ~sess[s].scanned /\ ~sess[s].scrolled /\ sess[s].scroll_count = 0
    /\ sess[s].ret.kind \in {"none", "raised"} =>
         ~sess[s].scanned /\ ~sess[s].scrolled /\ sess[s].scroll_count = 0

C6_Witness ==
  \E s \in Sessions :
    sess[s].private_element /\ sess[s].pc = "done" /\ sess[s].ret = ReturnNone

(* C7: two sessions run side by side on the same page return the same *)
(* ordered result.                                                    *)
C7_Deterministic ==
  (/\ Started(1) /\ Started(2)
   /\ sess[1].pc = "done" /\ sess[2].pc = "done")
  => sess[1].ret = sess[2].ret

(* C8: scroll_count and consecutive_failed_scrolls never decrease. *)
C8_Monotone ==
  [][\A s \in Sessions :
       /\ sess'[s].scroll_count >= sess[s].scroll_count
       /\ sess'[s].consecutive_failed_scrolls >=
            sess[s].consecutive_failed_scrolls]_vars

(* C8 as amended: scroll_count never decreases; the only decrease of  *)
(* consecutive_failed_scrolls is its reset to 0 by the counter update *)
(* of an iteration that collected at least one new tweet.             *)
C8_MonotoneButReset ==
  [][\A s \in Sessions :
       /\ sess'[s].scroll_count >= sess[s].scroll_count
       /\ sess'[s].consecutive_failed_scrolls <
            sess[s].consecutive_failed_scrolls
          => /\ sess[s].pc = "update"
             /\ Len(sess[s].tweets) > sess[s].tweets_before
             /\ sess'[s].consecutive_failed_scrolls = 0]_vars

(* stalls were counted, the alternative strategy has run, and the     *)
(* counter update of an iteration that collected a tweet has just     *)
(* reset the count                                                    *)
C8_Witness ==
  \E s \in Sessions :
    /\ sess[s].pc = "decide" /\ sess[s].new_tweets_count > 0
    /\ sess[s].consecutive_failed_scrolls = 0
    /\ sess[s].scroll_count > max_no_new_tweets + 1
    /\ feed.kind = "drip" /\ feed.gap > max_no_new_tweets + 1

(* C9: in the loop scroll_count <= 50 and consecutive_failed_scrolls  *)
(* <= 8, and a loop ended by the stall limit ended at exactly 8.      *)
C9_CounterBounds ==
  \A s \in Sessions :
    /\ sess[s].scroll_count <= max_scroll_attempts
    /\ sess[s].consecutive_failed_scrolls <= max_consecutive_failures
    /\ sess[s].exit = "stall" =>
         sess[s].consecutive_failed_scrolls = max_consecutive_failures

(* the stall limit ended a loop that had collected tweets before *)
C9_Witness ==
  \E s \in Sessions :
    /\ sess[s].exit = "stall" /\ sess[s].pc = "done"
    /\ sess[s].consecutive_failed_scrolls = max_consecutive_failures
    /\ sess[s].scroll_count > max_consecutive_failures

(* C10: no call of scrape_tweets or scrape_profile_info ends with an  *)
(* exception escaping to the caller.                                  *)
C10_NeverRaises ==
  \A s \in Sessions : sess[s].ret.kind # "raised"

(* C11: a session whose wait for the privacy marker and whose wait for *)
(* the first article both timed out returns the empty list, not None,  *)
(* and has issued no scan and no scroll.                               *)
C11_EmptyOnTimeout ==
  [][\A s \in Sessions :
       (sess[s].pc = "wait_tweets" /\ sess'[s].pc = "done")
       => /\ ~sess'[s].private_element
          /\ sess'[s].ret = ReturnList(<<>>)
          /\ sess'[s].ret # ReturnNone
          /\ ~sess'[s].scanned /\ ~sess'[s].scrolled
          /\ sess'[s].scroll_count = 0]_vars

C11_Witness ==
  \E s \in Sessions :
    /\ sess[s].pc = "done" /\ sess[s].num_tweets > 0
    /\ ~sess[s].private_element /\ ~sess[s].scanned
    /\ sess[s].ret = ReturnList(<<>>)

(* a request that holds a scraper and whose scraper call has returned *)
Returned(s) ==
  /\ sess[s].scraper # 0
  /\ sess[s].pc \in {"done", "r_finally", "r_except", "end"}

(* C12: on every exit path of a request that acquired a driver -       *)
(* result, None, empty list, exception of the scraper or of the        *)
(* analysis - driver.quit() has been called once when the request      *)
(* completes, never more than once, and not before the scraper call    *)
(* returned; a request that acquired no driver releases none.          *)
C12_DriverReleased ==
  \A s \in Sessions :
    /\ sess[s].quits <= 1
    /\ sess[s].scraper = 0 => sess[s].quits = 0
    /\ (sess[s].scraper # 0 /\ sess[s].pc \in ScrapePcs \cup {"done", "r_finally"})
         => sess[sess[s].scraper].quits = 0
    /\ (sess[s].scraper # 0 /\ sess[s].pc \in {"r_except", "end"})
         => sess[sess[s].scraper].quits = 1

(* the analysis of analyze_profile raised after a successful harvest,  *)
(* and the other request ended on a private or empty early return      *)
C12_Witness ==
  \E s, r \in Sessions :
    /\ sess[s].pc = "end" /\ sess[s].handler = "analyze_profile"
    /\ sess[s].ret.kind = "list" /\ sess[s].response = ServerError
    /\ sess[s].quits = 1
    /\ sess[r].pc = "end" /\ sess[r].ret = ReturnList(<<>>)
    /\ sess[r].response = StatusOK /\ sess[r].quits = 1

(* C13: under every interleaving of two requests a step changes the    *)
(* record of one request only (its locals, its seen_tweets, its        *)
(* driver), and every harvest whose driver did not fail returns what   *)
(* the same call returns when it runs alone on the same page.          *)
C13_SessionIsolation ==
  /\ [](\A s \in Sessions :
          (Returned(s) /\ ~sess[s].driver_dead) =>
            sess[s].ret =
              RunAlone(feed,
                       NewSession(IF sess[s].handler = "get_profile_info"
                                  THEN "p_start" ELSE "start",
                                  sess[s].num_tweets)))
  /\ [][Cardinality({r \in Sessions : sess'[r] # sess[r]}) <= 1]_vars

(* two harvests of the same page with different targets both finished: *)
(* one reached its target, the other stopped on the stall limit        *)
C13_Witness ==
  /\ sess[1].pc = "end" /\ sess[2].pc = "end"
  /\ sess[1].exit = "stall" /\ sess[2].exit = "target"
  /\ sess[1].ret = ReturnList(PostTexts(1))
  /\ sess[2].ret = ReturnList(PostTexts(1))
  /\ sess[1].seen_tweets = sess[2].seen_tweets

(* C14: a loop ended by the scroll budget or by the stall limit with   *)
(* fewer tweets than the target returns the tweets collected so far as *)
(* a list: not None, not an exception.                                 *)
C14_PartialResult ==
  \A s \in Sessions :
    (sess[s].exit \in {"stall", "budget"} /\ sess[s].pc = "done")
    => /\ Len(sess[s].tweets) < sess[s].num_tweets
       /\ sess[s].ret = ReturnList(sess[s].tweets)

(* 50 iterations, a new post every 7th scan: the budget ended the loop *)
(* with some tweets, fewer than the target                             *)
C14_Witness ==
  \E s \in Sessions :
    /\ sess[s].exit = "budget" /\ sess[s].pc = "done"
    /\ sess[s].scroll_count = max_scroll_attempts
    /\ sess[s].consecutive_failed_scrolls < max_consecutive_failures
    /\ sess[s].ret.kind = "list"
    /\ Len(sess[s].ret.val) > 0 /\ Len(sess[s].ret.val) < sess[s].num_tweets

AllDone == \A s \in Sessions : Started(s) => sess[s].pc = "done"

(* C15: when every driver call returns, every session reaches the end  *)
(* of its call, for every feed and target, within 50 loop iterations;  *)
(* an iteration cut short by a stale snapshot has used up one of the   *)
(* 50 scroll attempts like any other.                                  *)
C15_Termination ==
  /\ <>[]AllDone
  /\ [](\A s \in Sessions : sess[s].scroll_count <= max_scroll_attempts)
  /\ [][\A s \in Sessions :
          (sess[s].pc = "scan" /\ sess'[s].pc = "loop_head")
          => sess'[s].scroll_count = sess[s].scroll_count]_vars

(* every snapshot from the second scan on was stale, and the session   *)
(* ended after its 50th iteration                                      *)
C15_Witness ==
  \E s \in Sessions :
    /\ feed.kind = "drip" /\ feed.stale_from = 2
    /\ sess[s].pc = "done" /\ sess[s].exit = "budget"
    /\ sess[s].scroll_count = max_scroll_attempts
    /\ sess[s].consecutive_failed_scrolls = 0

(* C16: what a call hands its caller is a list (possibly short or      *)
(* empty), None, the profile dictionary, or the exception of a failed  *)
(* navigation.  While the driver stays alive, once the loop is entered *)
(* the outcome is a list whatever goes stale or missing during the     *)
(* scans and whichever scroll strategy is used: the only exception is  *)
(* raised before the first marker is waited for.                       *)
C16_OutcomeKinds ==
  \A s \in Sessions :
    /\ sess[s].ret.kind \in {"pending", "list", "none", "dict", "raised"}
    /\ sess[s].pc = "done" <=> sess[s].ret.kind # "pending"
    /\ (InLoop(sess[s]) \/ sess[s].scanned) =>
         sess[s].ret.kind = IF sess[s].pc = "done" THEN "list" ELSE "pending"
    /\ sess[s].ret.kind = "raised" =>
         /\ ~sess[s].scanned /\ ~sess[s].scrolled
         /\ ~sess[s].private_element /\ sess[s].last_height = 0

(* every snapshot after the first scan was stale; the call returned    *)
(* the tweet of the first scan                                         *)
C16_Witness ==
  \E s \in Sessions :
    /\ feed.kind = "drip" /\ feed.stale_from = 2 /\ feed.first = 1
    /\ sess[s].pc = "done" /\ sess[s].scroll_count > feed.stale_from
    /\ sess[s].ret = ReturnList(PostTexts(1))

(* C17: when the backend of a harvest request's driver dies during the *)
(* scraper call, the call ends with the exception, the request is      *)
(* answered with status 500 and with nothing else, driver.quit() has   *)
(* been called before that response is produced, and after the failure *)
(* the session issues no scan and no scroll and collects nothing.      *)
C17_FatalPropagates ==
  /\ [](\A s \in Sessions :
          (sess[s].driver_dead /\ sess[s].handler # "get_profile_info") =>
            /\ sess[s].ret = Raised
            /\ sess[s].response \in {0, ServerError}
            /\ sess[s].response = ServerError =>
                 sess[sess[s].scraper].quits = 1
            /\ sess[s].pc = "end" => sess[s].response = ServerError)
  /\ [][\A s \in Sessions :
          (sess[s].driver_dead /\ sess[s].handler # "get_profile_info") =>
            /\ sess'[s].scroll_count = sess[s].scroll_count
            /\ sess'[s].scanned = sess[s].scanned
            /\ sess'[s].scrolled = sess[s].scrolled
            /\ sess'[s].tweets = sess[s].tweets
            /\ sess'[s].seen_tweets = sess[s].seen_tweets]_vars

(* the backend died after the alternative strategy had been used once; *)
(* the request has been answered                                       *)
C17_Witness ==
  \E s \in Sessions :
    /\ sess[s].driver_dead /\ sess[s].handler = "get_tweets_by_url"
    /\ sess[s].scanned /\ sess[s].scrolled
    /\ sess[s].scroll_count > max_no_new_tweets
    /\ sess[s].pc = "end" /\ sess[s].response = ServerError
    /\ sess[s].quits = 1

NoDuplicates(l) == \A i, j \in 1..Len(l) : i # j => l[i] # l[j]

(* C18: on a page of well-formed posts, whose texts are pairwise       *)
(* distinct, no post is collected twice, also when the lookup of a     *)
(* post's status link fails in one scan and succeeds in another.       *)
C18_NoDuplicateItems ==
  \A s \in Sessions :
    feed.kind \in {"drip", "flaky"} =>
      /\ NoDuplicates(sess[s].tweets)
      /\ sess[s].ret.kind = "list" => NoDuplicates(sess[s].ret.val)

(* an address with a protocol whose host is the profile host *)
FullyQualified(url) ==
  \E proto \in {HttpP, HttpsP}, www \in {<<>>, Www} :
    StartsWith(url, proto \o www \o XCom \o <<Slash>>)

(* an identifier that names neither accepted host and has no protocol *)
Unrecognized(identifier) ==
  /\ ~Contains(identifier, XCom) /\ ~Contains(identifier, TwitterCom)
  /\ ~StartsWith(Strip(identifier), HttpP)
  /\ ~StartsWith(Strip(identifier), HttpsP)

(* C19: for every identifier and either is_url, get_profile_url        *)
(* returns an address that starts with a protocol and names the        *)
(* profile host, and for an identifier of unrecognized shape the       *)
(* canonical address of the stripped identifier.                       *)
C19_FullyQualified ==
  \A s \in Sessions :
    sess[s].pc = "url_done" =>
      /\ FullyQualified(sess[s].url)
      /\ Unrecognized(sess[s].identifier) =>
           sess[s].url =
             HttpsP \o XCom \o <<Slash>>
               \o (IF sess[s].is_url THEN Strip(sess[s].identifier)
                   ELSE LStrip(Strip(sess[s].identifier), {AtSign}))

(* C20: the address returned by get_profile_url has no query part, and *)
(* a bare handle behind a mention marker gives the address of the      *)
(* handle itself.                                                      *)
C20_NoQueryNoMarker ==
  /\ \A s \in Sessions :
       sess[s].pc = "url_done" => ~Contains(sess[s].url, <<Question>>)
  /\ (/\ sess[1].pc = "url_done" /\ sess[2].pc = "url_done"
      /\ ~sess[1].is_url
      /\ sess[2].identifier = <<AtSign>> \o sess[1].identifier
      /\ sess[1].identifier = Span(sess[1].identifier, {Space, Slash, Question}))
     => sess[2].url = sess[1].url

(* the address of a profile on x.com in one of the accepted shapes: *)
(* with or without protocol, with or without the www prefix         *)
AcceptedShape(identifier) ==
  \E proto \in {<<>>, HttpP, HttpsP}, www \in {<<>>, Www} :
    /\ StartsWith(Strip(identifier), proto \o www \o XCom \o <<Slash>>)
    /\ Len(Strip(identifier)) > Len(proto \o www \o XCom \o <<Slash>>)

(* C21: for an address in any accepted shape, get_profile_url of its   *)
(* twitter.com form and of its x.com form return the same address, an  *)
(* address on x.com in which twitter.com does not occur.               *)
C21_HostFormsAgree ==
  (/\ sess[1].pc = "url_done" /\ sess[2].pc = "url_done"
   /\ sess[1].is_url
   /\ AcceptedShape(sess[1].identifier)
   /\ sess[2].identifier = TwitterForm(sess[1].identifier))
  => /\ sess[2].url = sess[1].url
     /\ FullyQualified(sess[1].url)
     /\ ~Contains(sess[2].url, TwitterCom)

(* both forms of http://www.<host>/a were normalized *)
C21_Witness ==
  /\ sess[1].pc = "url_done" /\ sess[2].pc = "url_done"
  /\ sess[1].is_url
  /\ sess[1].identifier = HttpP \o Www \o XCom \o <<Slash, LetterA>>
  /\ sess[2].identifier = HttpP \o Www \o TwitterCom \o <<Slash, LetterA>>
  /\ sess[2].url = sess[1].identifier

(* C22: the analyses in a response of get_user_analyses were all saved *)
(* under the email of the user the request's token was issued to,      *)
(* whatever the email parameter of the request names.                  *)
C22_OwnAnalysesOnly ==
  \A s \in Sessions :
    (sess[s].pc = "end" /\ sess[s].response = StatusOK)
    => \A a \in sess[s].analyses : a.email = EmailOf(sess[s].token)

HarvestHandlers ==
  {"get_tweets_by_username", "get_tweets_by_url", "analyze_profile"}

(* the request's count is outside 1..100, or its url is a non-empty  *)
(* address of neither accepted host, or it has no username and no url *)
Invalid(st) ==
  \/ st.num_tweets < 1 \/ st.num_tweets > MaxCount
  \/ st.url = "foreign"
  \/ st.username = "absent" /\ st.url \in {"absent", "empty"}

C24_RetriedWithinIteration ==
  \A s \in Sessions :
    (feed.kind = "flaky" /\ sess[s].pc = "update")
    => \/ Len(sess[s].tweets) >= sess[s].num_tweets
       \/ \A i \in 1..Loaded(feed, sess[s].scroll_count) :
            \E j \in 1..Len(sess[s].tweets) : sess[s].tweets[j] = PostText(i)

(* C25: an iteration whose snapshot could not be obtained goes back to *)
(* the loop head with both stall counters one higher than before.      *)
C25_StaleSnapshotCounted ==
  [][\A s \in Sessions :
       (sess[s].pc = "scan" /\ sess'[s].pc = "loop_head")
       => /\ sess'[s].no_new_tweets_count = sess[s].no_new_tweets_count + 1
          /\ sess'[s].consecutive_failed_scrolls =
               sess[s].consecutive_failed_scrolls + 1]_vars

(* C26: the counter update of an iteration that completed its scan     *)
(* adds 1 to no_new_tweets_count and to consecutive_failed_scrolls     *)
(* when the scan collected nothing and sets both to 0 when it          *)
(* collected something, and changes neither scroll_count nor           *)
(* last_height nor the collection; scroll_count grows by exactly 1 at  *)
(* the head of each iteration and at no other step.                    *)
C26_CounterUpdate ==
  [][\A s \in Sessions :
       /\ (sess[s].pc = "update" /\ sess'[s].pc # "update") =>
            /\ sess'[s].pc = "decide"
            /\ sess'[s].new_tweets_count =
                 Len(sess[s].tweets) - sess[s].tweets_before
            /\ sess'[s].new_tweets_count = 0 =>
                 /\ sess'[s].no_new_tweets_count =
                      sess[s].no_new_tweets_count + 1
                 /\ sess'[s].consecutive_failed_scrolls =
                      sess[s].consecutive_failed_scrolls + 1
            /\ sess'[s].new_tweets_count > 0 =>
                 /\ sess'[s].no_new_tweets_count = 0
                 /\ sess'[s].consecutive_failed_scrolls = 0
            /\ sess'[s].last_height = sess[s].last_height
            /\ sess'[s].tweets = sess[s].tweets
            /\ sess'[s].seen_tweets = sess[s].seen_tweets
       /\ sess'[s].scroll_count =
            sess[s].scroll_count
              + (IF sess[s].pc = "loop_head" /\ sess'[s].pc = "scan"
                 THEN 1 ELSE 0)]_vars

(* the update after the recovery action counted a stall: the streak is *)
(* 1, the consecutive stalls are 6; and earlier an update had reset    *)
(* both after stalls                                                   *)
C26_Witness ==
  \E s \in Sessions :
    /\ sess[s].pc = "decide" /\ sess[s].new_tweets_count = 0
    /\ sess[s].no_new_tweets_count = 1
    /\ sess[s].consecutive_failed_scrolls = max_no_new_tweets + 1
    /\ Len(sess[s].tweets) > feed.first

(* after the counter update: the streak has reached 5, fewer than 8 *)
(* consecutive stalls, target not reached                           *)
Trigger(st) ==
  /\ st.no_new_tweets_count >= max_no_new_tweets
  /\ st.consecutive_failed_scrolls < max_consecutive_failures
  /\ Len(st.tweets) < st.num_tweets

(* C27: the alternative strategy is run in exactly the iterations in   *)
(* which, after the counter update, no_new_tweets_count has reached 5  *)
(* with fewer than 8 consecutive stalls and the target not reached;    *)
(* it leaves no_new_tweets_count at 0, whatever came of its clicks,    *)
(* and consecutive_failed_scrolls as it was.                           *)
C27_Recovery ==
  [][\A s \in Sessions :
       /\ (sess[s].pc = "decide" /\ sess'[s].pc # "decide" /\ Trigger(sess[s]))
            => sess'[s] = [sess[s] EXCEPT !.pc = "advance"]
       /\ sess[s].pc = "advance" =>
            /\ sess[s].consecutive_failed_scrolls < max_consecutive_failures
            /\ Len(sess[s].tweets) < sess[s].num_tweets
            /\ sess[s].no_new_tweets_count <= max_no_new_tweets
       /\ (sess[s].pc = "advance" /\ sess'[s].pc # "advance") =>
            /\ sess'[s].advance = "recovery" <=> Trigger(sess[s])
            /\ sess'[s].advance = "recovery" =>
                 sess'[s].no_new_tweets_count = 0
            /\ sess'[s].advance # "recovery" =>
                 sess'[s].no_new_tweets_count = sess[s].no_new_tweets_count
            /\ sess'[s].consecutive_failed_scrolls =
                 sess[s].consecutive_failed_scrolls
       /\ (sess'[s].advance = "recovery" /\ sess[s].advance # "recovery")
            => sess[s].pc = "advance"]_vars

(* the strategy has just run at the 5th stall of a session that had *)
(* collected tweets before                                          *)
C27_Witness ==
  \E s \in Sessions :
    /\ sess[s].pc = "height" /\ sess[s].advance = "recovery"
    /\ sess[s].no_new_tweets_count = 0
    /\ sess[s].consecutive_failed_scrolls = max_no_new_tweets
    /\ Len(sess[s].tweets) > 0

(* C28: an element whose identity is already in seen_tweets, and one  *)
(* whose text is empty, leaves the collection as it was: every step   *)
(* that changes the collection appends one non-empty text and adds    *)
(* one identity to seen_tweets, which therefore was not in it; and an *)
(* iteration whose scan appended nothing is counted as a stall with   *)
(* new_tweets_count 0.                                                *)
C28_SeenOrEmptyNotCounted ==
  [][\A s \in Sessions :
       /\ sess'[s].tweets # sess[s].tweets =>
            /\ sess[s].pc = "process"
            /\ Len(sess'[s].tweets) = Len(sess[s].tweets) + 1
            /\ SubSeq(sess'[s].tweets, 1, Len(sess[s].tweets)) = sess[s].tweets
            /\ sess'[s].tweets[Len(sess'[s].tweets)] # <<>>
            /\ sess[s].seen_tweets \subseteq sess'[s].seen_tweets
            /\ Cardinality(sess'[s].seen_tweets) =
                 Cardinality(sess[s].seen_tweets) + 1
       /\ (sess[s].pc = "update" /\ sess'[s].pc = "decide"
           /\ Len(sess[s].tweets) = sess[s].tweets_before) =>
            /\ sess'[s].new_tweets_count = 0
            /\ sess'[s].consecutive_failed_scrolls =
                 sess[s].consecutive_failed_scrolls + 1]_vars

(* the second scan of a page rendered only the post collected in the *)
(* first and was counted as a stall                                  *)
C28_Witness ==
  \E s \in Sessions :
    /\ sess[s].pc = "decide" /\ sess[s].new_tweets_count = 0
    /\ sess[s].consecutive_failed_scrolls = 1
    /\ sess[s].tweets_before = Len(sess[s].tweets)
    /\ feed.kind = "drip" /\ feed.first = 1 /\ sess[s].scroll_count = 2
    /\ sess[s].tweets = PostTexts(1)

(* C29: the height check after the advance action issues the           *)
(* supplemental scroll exactly when the height it measures equals      *)
(* last_height, and stores the measured height in last_height; on a    *)
(* page whose height is the number of posts loaded, last_height is the *)
(* height measured after the previous iteration's action, or before    *)
(* the loop for the first iteration.  No other step of the loop issues *)
(* the supplemental scroll or assigns last_height.                     *)
C29_PlateauCheck ==
  [][\A s \in Sessions :
       /\ (sess[s].pc = "height" /\ sess'[s].pc # "height") =>
            /\ sess'[s].pc = "loop_head"
            /\ sess'[s].supplemental <=>
                 sess'[s].last_height = sess[s].last_height
            /\ feed.kind # "adversarial" =>
                 /\ sess[s].last_height = Loaded(feed, sess[s].scroll_count)
                 /\ sess'[s].last_height =
                      Loaded(feed, sess[s].scroll_count + 1)
       /\ sess[s].pc \notin {"height", "wait_tweets"} =>
            /\ sess'[s].last_height = sess[s].last_height
            /\ sess'[s].supplemental => sess[s].supplemental]_vars

(* the page grew during the 5th iteration and not during the 6th: the *)
(* 6th issued the supplemental scroll                                 *)
C29_Witness ==
  \E s \in Sessions :
    /\ feed.kind = "drip" /\ feed.gap = 5 /\ feed.total > feed.first
    /\ sess[s].pc = "loop_head" /\ sess[s].scroll_count = 6
    /\ sess[s].supplemental
    /\ sess[s].last_height = feed.first + feed.width

(* the numeric status id of the element's link: the digits that follow *)
(* "/status/" in the href of a link that can be read; <<>>: none       *)
StatusId(e) ==
  IF e.staleAt = 1 \/ e.href = NoHref THEN <<>> ELSE DigitRun(e.href)

(* the text of the element as get_tweet_id can read it; <<>>: none *)
ReadableText(e) == IF e.staleAt <= 2 THEN <<>> ELSE e.text

(* C30: the identity is the numeric status id of the element's link    *)
(* when there is one; otherwise the first 50 characters of its text    *)
(* when it has text; otherwise the random key.                         *)
C30_PriorityChain ==
  \A s \in Sessions :
    sess[s].pc = "id_done" =>
      LET e == sess[s].tweet_element
          id == sess[s].tweet_id
      IN /\ StatusId(e) # <<>> =>
              /\ id = StatusId(e)
              /\ \A i \in 1..Len(id) : IsDigit(id[i])
         /\ (StatusId(e) = <<>> /\ ReadableText(e) # <<>>) =>
              /\ Len(id) = Min(IdPrefixLen, Len(e.text))
              /\ id = SubSeq(e.text, 1, Len(id))
         /\ (StatusId(e) = <<>> /\ ReadableText(e) = <<>>) => id = sess[s].rk

(* one call took the status id although the element has text, the   *)
(* other cut a text of 51 characters to its first 50                *)
C30_Witness ==
  /\ sess[1].pc = "id_done" /\ sess[2].pc = "id_done"
  /\ sess[1].tweet_element.href = <<2, LetterA>>
  /\ sess[1].tweet_element.text = LongB
  /\ sess[1].tweet_id = <<2>>
  /\ sess[2].tweet_element.href = <<LetterA>>
  /\ sess[2].tweet_element.text = LongB
  /\ sess[2].tweet_id = [i \in 1..IdPrefixLen |-> LetterA]

(* C34: no_new_tweets_count never exceeds consecutive_failed_scrolls   *)
(* and the two differ by 0 or by 5; the alternative strategy runs only *)
(* at the 5th stall of a run of stalls, and a loop ended by the stall  *)
(* limit ends at the 8th with no_new_tweets_count 3.                   *)
C34_StallCounters ==
  /\ [](\A s \in Sessions :
          /\ sess[s].no_new_tweets_count <= sess[s].consecutive_failed_scrolls
          /\ sess[s].consecutive_failed_scrolls - sess[s].no_new_tweets_count
               \in {0, max_no_new_tweets}
          /\ sess[s].exit = "stall" =>
               /\ sess[s].consecutive_failed_scrolls = max_consecutive_failures
               /\ sess[s].no_new_tweets_count =
                    max_consecutive_failures - max_no_new_tweets)
  /\ [][\A s \in Sessions :
          (sess[s].pc = "advance" /\ sess'[s].advance = "recovery") =>
            /\ sess[s].consecutive_failed_scrolls = max_no_new_tweets
            /\ sess[s].no_new_tweets_count = max_no_new_tweets]_vars

(* a run of 8 stalls, with the strategy run at its 5th, ended a loop *)
(* that had collected tweets in two earlier scans                    *)
C34_Witness ==
  \E s \in Sessions :
    /\ sess[s].exit = "stall" /\ sess[s].pc = "return"
    /\ sess[s].no_new_tweets_count = 3
    /\ sess[s].consecutive_failed_scrolls = 8
    /\ sess[s].advance = "none"
    /\ feed.kind = "drip" /\ feed.total = feed.first + 1

(* C36: an iteration that completed its scan and is not ended by the   *)
(* target or the stall limit issues exactly one advance action, the    *)
(* scroll to the bottom or the alternative strategy, the 50th          *)
(* iteration included; an iteration ended by target or stall limit     *)
(* issues none.                                                        *)
C36_OneAdvance ==
  /\ [][\A s \in Sessions :
          /\ (sess[s].pc = "decide" /\ sess'[s].pc # "decide") =>
               /\ sess[s].advance = "none" /\ sess'[s].advance = "none"
               /\ sess'[s].pc =
                    IF \/ Len(sess[s].tweets) >= sess[s].num_tweets
                       \/ sess[s].consecutive_failed_scrolls
                            >= max_consecutive_failures
                    THEN "return" ELSE "advance"
          /\ (sess[s].pc = "advance" /\ sess'[s].pc # "advance") =>
               /\ sess[s].advance = "none"
               /\ sess'[s].advance \in {"bottom", "recovery"}
               /\ sess'[s].pc = "height"
          /\ (sess[s].pc = "height" /\ sess'[s].pc # "height") =>
               /\ sess'[s].advance = sess[s].advance
               /\ sess'[s].pc = "loop_head"
          /\ sess'[s].advance # sess[s].advance =>
               sess[s].pc \in {"advance", "loop_head"}]_vars
  /\ [](\A s \in Sessions :
          sess[s].exit \in {"target", "stall"} => sess[s].advance = "none")

(* the 50th iteration completed its scan and issued its scroll to the *)
(* bottom; the loop then ended on the scroll budget                   *)
C36_Witness ==
  \E s \in Sessions :
    /\ sess[s].pc = "return" /\ sess[s].exit = "budget"
    /\ sess[s].scroll_count = max_scroll_attempts
    /\ sess[s].advance = "bottom"
    /\ Len(sess[s].tweets) < sess[s].num_tweets

(* C35: in a call of scrape_tweets the identities under which tweets  *)
(* were collected are in seen_tweets, and so is every identity first  *)
(* observed with empty text or a stale text lookup: no tweet is ever  *)
(* collected under such an identity, whatever it shows in later scans. *)
C35_SeenBeforeText ==
  \A s \in Sessions :
    (sess[s].pc # "idle" /\ InLoop(sess[s])) =>
      /\ Identities(sess[s]) \subseteq sess[s].seen_tweets
      /\ sess[s].blank \subseteq sess[s].seen_tweets
      /\ sess[s].blank \cap Identities(sess[s]) = {}
      /\ sess[s].reshown \subseteq sess[s].blank
      /\ Len(sess[s].ids) = Len(sess[s].tweets)

(* a post with status link 1 showed no text in the first scan and a   *)
(* text in the second, which ended with nothing collected             *)
C35_Witness ==
  \E s \in Sessions :
    /\ sess[s].pc = "update" /\ sess[s].scroll_count = 2
    /\ sess[s].blank = {<<1>>} /\ sess[s].seen_tweets = {<<1>>}
    /\ sess[s].reshown = {<<1>>}
    /\ sess[s].tweets = <<>>
    /\ sess[s].tweets_before = 0
    /\ feed.kind = "adversarial"

(* C38: every call of scrape_tweets on a scraper instance, the first  *)
(* or a later one, enters the scan loop with seen_tweets and tweets   *)
(* empty and the counters at zero, and a later call returns what a    *)
(* first call on a new instance returns for the same page and target. *)
C38_CallsIndependent ==
  \A s \in Sessions :
    /\ (sess[s].pc = "loop_head" /\ sess[s].scroll_count = 0) =>
         /\ sess[s].seen_tweets = {} /\ sess[s].tweets = <<>>
         /\ sess[s].no_new_tweets_count = 0
         /\ sess[s].consecutive_failed_scrolls = 0
    /\ (sess[s].pc = "done" /\ sess[s].calls > 1 /\ feed.kind = "drip") =>
         sess[s].ret = RunAlone(feed, NewSession("start", sess[s].num_tweets))

(* the second call on a page of two posts, of which the first call *)
(* had seen at least one, returned both                            *)
C38_Witness ==
  \E s \in Sessions :
    /\ sess[s].pc = "done" /\ sess[s].calls = 2
    /\ feed.kind = "drip" /\ feed.first = 2 /\ ~feed.protected
    /\ sess[s].num_tweets = 2
    /\ sess[s].ret = ReturnList(PostTexts(2))
    /\ Cardinality(sess[s].seen_tweets) = 2

(* an address with protocol, accepted host and a profile name *)
FullAddress(identifier) ==
  \E proto \in {HttpP, HttpsP}, www \in {<<>>, Www}, host \in {XCom, TwitterCom} :
    /\ StartsWith(Strip(identifier), proto \o www \o host \o <<Slash>>)
    /\ Len(Strip(identifier)) > Len(proto \o www \o host \o <<Slash>>)

(* the first path segment of an address with a protocol *)
ProfileSegment(url) ==
  LET rest == Drop(url, Find(url, <<Slash, Slash>>) + 1) IN
  Span(Drop(rest, Find(rest, <<Slash>>)), {Slash, Question, Space})

C39_UsernameWhenNoUrl ==
  \A s \in Sessions :
    (/\ sess[s].handler \in {"analyze_profile", "get_profile_info"}
     /\ sess[s].pc \in ScrapePcs)
    => /\ (sess[s].username = "name" /\ sess[s].url \in {"absent", "empty"})
            => (sess[s].identifier = "name" /\ ~sess[s].is_url)
       /\ sess[s].is_url =>
            (sess[s].identifier = sess[s].url /\ sess[s].url = "accepted")

(* C32: when the save of analyze_profile fails, the response built    *)
(* stays the 200 response, with saved_to_db false and db_error set,   *)
(* and only a failing scraper.close() can still turn it into a 500;   *)
(* a request without email, or whose scraping or analysis failed,     *)
(* saves nothing: the table holds one row for every request whose     *)
(* response says saved_to_db true, under that request's email.        *)
C32_SaveFailureContained ==
  /\ \A s \in Sessions :
       /\ sess[s].save_failed <=> sess[s].db_error
       /\ sess[s].db_error =>
            /\ sess[s].saved_to_db = "false" /\ sess[s].email # NoEmail
            /\ sess[s].pc = "r_finally" =>
                 (sess[s].response = StatusOK /\ ~sess[s].exc)
            /\ sess[s].pc = "end" =>
                 (sess[s].response = StatusOK \/ sess[s].exc)
       /\ sess[s].saved_to_db = "true" =>
            /\ sess[s].email # NoEmail /\ sess[s].ret.kind = "list"
            /\ sess[s].pc = "r_finally" =>
                 (sess[s].response = StatusOK /\ ~sess[s].exc)
       /\ (sess[s].pc = "r_finally"
           /\ (sess[s].exc \/ sess[s].response # StatusOK))
            => sess[s].saved_to_db = "unset"
  /\ Cardinality(app.analyses)
       = Cardinality({s \in Sessions : sess[s].saved_to_db = "true"})
  /\ \A a \in app.analyses :
       \E s \in Sessions :
         sess[s].saved_to_db = "true" /\ sess[s].email = a.email

(* a request with an email was answered 200 with its tweet although *)
(* the save had failed; nothing was saved                           *)
C32_Witness ==
  \E s \in Sessions :
    /\ sess[s].pc = "end" /\ sess[s].response = StatusOK
    /\ sess[s].save_failed
    /\ sess[s].db_error /\ sess[s].saved_to_db = "false"
    /\ sess[s].email = EmailOf(1)
    /\ sess[s].ret = ReturnList(PostTexts(1))
    /\ app.analyses = {}

(* C33: a request to a protected route sent with a token that a       *)
(* logout has blacklisted never reaches the handler and is answered   *)
(* 401, whatever logins and logouts came between; token_blacklist     *)
(* only grows, and it grows by the jti of the token of the logout     *)
(* request being served and by nothing else.                          *)
C33_LogoutRevokes ==
  /\ [](\A s \in Sessions :
          sess[s].after =>
            /\ sess[s].pc # "a_body"
            /\ sess[s].pc = "end" => sess[s].response = Unauthorized)
  /\ [][/\ app.token_blacklist \subseteq app'.token_blacklist
        /\ app'.token_blacklist # app.token_blacklist =>
             \E s \in Sessions :
               /\ sess[s].pc = "a_body" /\ sess[s].handler = "logout_user"
               /\ sess'[s].response = StatusOK
               /\ app'.token_blacklist =
                    app.token_blacklist \cup {sess[s].token.jti}]_vars

(* the first token was logged out, a second login issued another, and *)
(* a request with the first was answered 401 while one with the       *)
(* second was served                                                  *)
C33_Witness ==
  /\ app.token_blacklist = {1} /\ Cardinality(app.tokens) = 2
  /\ sess[1].pc = "end" /\ sess[1].after /\ sess[1].token.jti = 1
  /\ sess[1].response = Unauthorized
  /\ sess[2].pc = "end" /\ sess[2].token.jti = 2
  /\ sess[2].handler = "get_user_analyses" /\ sess[2].response = StatusOK

(* C31: whatever the interleaving of the first requests, a handler  *)
(* that calls analyze finds the model of the analyzer loaded or     *)
(* fitted.                                                          *)
C31_ModelReadyBeforeUse ==
  \A s \in Sessions : sess[s].used \in {"unset", "ready"}

====
